---- MODULE Spec2Model ----
(***************************************************************************)
(* FoodFacts: the barcode checksum validator (static/js/scanner.js), the   *)
(* health score estimator (README.md: ProductPage, getHealthScore), the    *)
(* score band helpers (static/js/main.js), and the pages around them: the  *)
(* product list with its grade badges and search box, the manual entry     *)
(* home page, the scan page with its camera component and upload route,    *)
(* the product page's getProductData and the upload form of scanner.js,    *)
(* the dashboard's tips refresh and tracked items (static/js/dashboard.js),*)
(* debounce and the theme toggle of main.js, and the health score chart    *)
(* of scanner.js.                                                          *)
(* Each page has a specification of its own; the variables of the other    *)
(* pages stay Closed in it.                                                *)
(*                                                                         *)
(* Strings are sequences of one-character strings.  Nutrient quantities    *)
(* are held in tenths of a gram (or of a milligram for sodium), so that    *)
(* the threshold 1.5 of salt_100g is the integer 15 and 20 is 200.         *)
(* A value returned by a call is held as a sequence: << >> before the      *)
(* call returned, << v >> after.                                           *)
(***************************************************************************)
EXTENDS Integers, Sequences, FiniteSets, TLC

VARIABLES
    barcode,        \* argument of validateBarcode (raw string)
    valid,          \* << >>, or << b >> once validateBarcode returned b
    product,        \* the record getProductData resolved to (ProductPage)
    healthScore,    \* << >>, or << n >> once getHealthScore returned n
    score,          \* argument of getHealthScoreClass / getHealthScoreText
    scoreClass,     \* << >>, or << c >> once getHealthScoreClass returned c
    scoreText,      \* << >>, or << t >> once getHealthScoreText returned t
    scoreColor,     \* << >>, or << c >> once getScoreColor returned c
    grade,          \* the product list page: getGradeColor (both copies)
    home,           \* the manual entry home page: field and navigation
    scan,           \* the scan page, the BarcodeScanner and the scan-image route
    fetch,          \* getProductData: the request and what it resolved to
    order,          \* the seven rules of getHealthScore applied one by one
    search,         \* the product list page: search term and filtered list
    upload,         \* the scan form of scanner.js: file input and submit button
    tips,           \* the dashboard: refreshPersonalizedTips and its button
    tracked,        \* the dashboard: removeTrackedItem and the item elements
    timer,          \* a function wrapped by debounce, its timeout and calls
    theme,          \* data-theme, localStorage and the theme toggle
    chart           \* the product detail chart: the colour of the Nutri-Score

barcodeVars == << barcode, valid >>
productVars == << product, healthScore >>
bandVars    == << score, scoreClass, scoreText, scoreColor >>
coreVars    == << barcodeVars, productVars, bandVars >>
dashVars    == << tips, tracked, timer, theme, chart >>
pageVars    == << grade, home, scan, fetch, order, search, upload, dashVars >>

vars == << coreVars, pageVars >>

\* the value of a page's variable while the page is not open
Closed == [open |-> FALSE]

DashClosed ==
    /\ tips = Closed /\ tracked = Closed /\ timer = Closed
    /\ theme = Closed /\ chart = Closed

ClosedPages ==
    /\ grade = Closed /\ home = Closed /\ scan = Closed /\ fetch = Closed
    /\ order = Closed /\ search = Closed /\ upload = Closed
    /\ DashClosed

----------------------------------------------------------------------------
(* Bounds of the model *)

\* largest number of decimal digits of an input of validateBarcode
MaxLen == 15
\* number of adjacent digits of an input that range over all of 0..9
FreeDigits == 2
\* largest number of non-digit characters inserted into an input
MaxJunk == 2
\* nutrient values range over threshold - Spread .. threshold + Spread (tenths)
Spread == 1
\* scores range over -MaxOver .. 100 + MaxOver
MaxOver == 20
\* times the BarcodeScanner is mounted
MaxMounts == 2
\* runs of the effect of the BarcodeScanner, all mounts together
MaxEffects == 4
\* frames drawn to the canvas
MaxFrames == 2
\* images uploaded from the scan page
MaxUploads == 2
\* times the product page is requested
MaxLoads == 2

\* the longest piece of a product text typed as a search term
MaxTerm == 3
\* bytes on either side of the size limit of an uploaded image
SizeSpread == 1
\* invocations of refreshPersonalizedTips
MaxRefresh == 3
\* confirm prompts of removeTrackedItem
MaxRemovals == 2
\* debounce: the longest wait, the last tick and the calls of the wrapper
MaxWait == 2
MaxTime == 5
MaxCalls == 3
\* calls of toggleTheme and reloads of the page
MaxToggles == 3
MaxReloads == 2
\* the Nutri-Scores of the product detail page: -MaxBelow..MaxAbove
MaxBelow == 15
MaxAbove == 40

----------------------------------------------------------------------------
(* Characters *)

DigitChars == {"0", "1", "2", "3", "4", "5", "6", "7", "8", "9"}

NonDigitChars == {"a", "-"}

\* the regular expression class \d
IsDigit(c) == c \in DigitChars

\* Number.parseInt of a one-character string: [nan |-> TRUE] stands for NaN
ParseInt(c) ==
    CASE c = "0" -> [nan |-> FALSE, val |-> 0]
      [] c = "1" -> [nan |-> FALSE, val |-> 1]
      [] c = "2" -> [nan |-> FALSE, val |-> 2]
      [] c = "3" -> [nan |-> FALSE, val |-> 3]
      [] c = "4" -> [nan |-> FALSE, val |-> 4]
      [] c = "5" -> [nan |-> FALSE, val |-> 5]
      [] c = "6" -> [nan |-> FALSE, val |-> 6]
      [] c = "7" -> [nan |-> FALSE, val |-> 7]
      [] c = "8" -> [nan |-> FALSE, val |-> 8]
      [] c = "9" -> [nan |-> FALSE, val |-> 9]
      [] OTHER   -> [nan |-> TRUE, val |-> 0]

\* a + b of two numbers, NaN absorbing
JsAdd(a, b) ==
    IF a.nan \/ b.nan THEN [nan |-> TRUE, val |-> 0]
    ELSE [nan |-> FALSE, val |-> a.val + b.val]

\* a * k for an integer literal k
JsTimes(a, k) ==
    IF a.nan THEN a ELSE [nan |-> FALSE, val |-> a.val * k]

\* a === b of two numbers: NaN equals nothing
JsStrictEq(a, b) == ~a.nan /\ ~b.nan /\ a.val = b.val

\* barcode[i] with the 0-based index of the source; undefined parses to NaN
CharAt(s, i) == IF i + 1 \in DOMAIN s THEN s[i + 1] ELSE "undefined"

----------------------------------------------------------------------------
(* static/js/scanner.js: the checksum validator *)

\* validateEAN13 with the two weights exchanged
RECURSIVE EAN13SumSwapped(_, _)
EAN13SumSwapped(s, n) ==
    IF n = 0 THEN [nan |-> FALSE, val |-> 0]
    ELSE LET i == n - 1
             digit == ParseInt(CharAt(s, i))
         IN  JsAdd(EAN13SumSwapped(s, n - 1),
                   IF i % 2 = 0 THEN JsTimes(digit, 3) ELSE digit)

\* the loop of validateEAN13: sum over i = 0 .. n-1, x1 at even i, x3 at odd i
RECURSIVE EAN13Sum(_, _)
EAN13Sum(s, n) ==
    IF n = 0 THEN [nan |-> FALSE, val |-> 0]
    ELSE LET i == n - 1
             digit == ParseInt(CharAt(s, i))
         IN  JsAdd(EAN13Sum(s, n - 1),
                   IF i % 2 = 0 THEN digit ELSE JsTimes(digit, 3))

\* (10 - (sum % 10)) % 10
CheckDigit(sum) ==
    IF sum.nan THEN sum
    ELSE [nan |-> FALSE, val |-> (10 - (sum.val % 10)) % 10]

validateEAN13(s) ==
    IF Len(s) # 13 THEN FALSE
    ELSE JsStrictEq(CheckDigit(EAN13Sum(s, 12)), ParseInt(CharAt(s, 12)))

\* validateUPC with the two weights exchanged
RECURSIVE UPCSumSwapped(_, _)
UPCSumSwapped(s, n) ==
    IF n = 0 THEN [nan |-> FALSE, val |-> 0]
    ELSE LET i == n - 1
             digit == ParseInt(CharAt(s, i))
         IN  JsAdd(UPCSumSwapped(s, n - 1),
                   IF i % 2 = 0 THEN digit ELSE JsTimes(digit, 3))

\* the loop of validateUPC: sum over i = 0 .. n-1, x3 at even i, x1 at odd i
RECURSIVE UPCSum(_, _)
UPCSum(s, n) ==
    IF n = 0 THEN [nan |-> FALSE, val |-> 0]
    ELSE LET i == n - 1
             digit == ParseInt(CharAt(s, i))
         IN  JsAdd(UPCSum(s, n - 1),
                   IF i % 2 = 0 THEN JsTimes(digit, 3) ELSE digit)

validateUPC(s) ==
    IF Len(s) # 12 THEN FALSE
    ELSE JsStrictEq(CheckDigit(UPCSum(s, 11)), ParseInt(CharAt(s, 11)))

\* barcode.replace(/\D/, ""): without the g flag only the first match goes
RECURSIVE StripFirstNonDigit(_)
StripFirstNonDigit(s) ==
    IF s = << >> THEN s
    ELSE IF IsDigit(Head(s)) THEN << Head(s) >> \o StripFirstNonDigit(Tail(s))
    ELSE Tail(s)

\* barcode.replace(/\D/g, "")
StripNonDigits(s) == SelectSeq(s, IsDigit)

\* /^\d$/.test(s): the + forgotten
OneDigit(s) == Len(s) = 1 /\ IsDigit(s[1])

\* /^\d+$/.test(s)
AllDigits(s) == Len(s) > 0 /\ \A i \in DOMAIN s : IsDigit(s[i])

\* validateBarcode with the upper length test off by one
validateBarcodeUpTo15(s) ==
    LET cleaned == StripNonDigits(s)
    IN  IF Len(cleaned) < 8 \/ Len(cleaned) > 15 THEN FALSE
        ELSE IF Len(cleaned) = 13 THEN validateEAN13(cleaned)
        ELSE IF Len(cleaned) = 12 THEN validateUPC(cleaned)
        ELSE AllDigits(cleaned)

validateBarcode(s) ==
    LET cleaned == StripNonDigits(s)
    IN  IF Len(cleaned) < 8 \/ Len(cleaned) > 14 THEN FALSE
        ELSE IF Len(cleaned) = 13 THEN validateEAN13(cleaned)
        ELSE IF Len(cleaned) = 12 THEN validateUPC(cleaned)
        ELSE AllDigits(cleaned)

----------------------------------------------------------------------------
(* Inputs of validateBarcode *)

\* a valid EAN-13 and a valid UPC-A code, repeated cyclically to any length
BaseCodes ==
    { << "4", "0", "0", "6", "3", "8", "1", "3", "3", "3", "9", "3", "1" >>,
      << "0", "3", "6", "0", "0", "0", "2", "9", "1", "4", "5", "2" >> }

BaseDigit(b, i) == b[((i - 1) % Len(b)) + 1]

\* the first n digits of b with the FreeDigits digits from position p replaced
Substituted(b, n, p, f) ==
    [i \in 1..n |-> IF i >= p /\ i < p + FreeDigits THEN f[i - p + 1]
                    ELSE BaseDigit(b, i)]

InsertAt(s, i, c) == SubSeq(s, 1, i) \o << c >> \o SubSeq(s, i + 1, Len(s))

\* where a non-digit character goes: after the first at digits; at = -1 and
\* no character for none
JunkChoices(n) ==
    { [at |-> -1, ch |-> ""] } \cup [at : 0..n, ch : NonDigitChars]

\* the choices taken left to right, none first
Ordered(j) == \A k \in DOMAIN j : k + 1 \in DOMAIN j => j[k].at <= j[k + 1].at

\* s with the characters of j[1..k] inserted, the rightmost first
RECURSIVE InsertJunk(_, _, _)
InsertJunk(s, j, k) ==
    IF k = 0 THEN s
    ELSE InsertJunk(IF j[k].at < 0 THEN s ELSE InsertAt(s, j[k].at, j[k].ch),
                    j, k - 1)

BasePrefix(b, n) == [i \in 1..n |-> BaseDigit(b, i)]

\* the inputs of the documented scenarios: "123" and "abc12345678"
ScenarioInputs ==
    { << "1", "2", "3" >>,
      << "a", "b", "c", "1", "2", "3", "4", "5", "6", "7", "8" >> }

----------------------------------------------------------------------------
(* Specification of the validator: any input, then one call *)

NoProduct == [product_name |-> ""]

IdleRest ==
    /\ product = NoProduct /\ healthScore = << >>
    /\ score = 0 /\ scoreClass = << >> /\ scoreText = << >>
    /\ scoreColor = << >>
    /\ ClosedPages

\* The argument is a digit string of any length 1..MaxLen (a base code with
\* FreeDigits adjacent digits, anywhere in it, ranging over all values), a
\* base code of any length 0..MaxLen written with up to MaxJunk non-digit
\* characters, or the input of a documented scenario.
InitBarcode ==
    /\ \/ \E b \in BaseCodes, n \in 1..MaxLen :
            \E p \in 1..n, f \in [1..FreeDigits -> DigitChars] :
                barcode = Substituted(b, n, p, f)
       \/ \E b \in BaseCodes, n \in 0..MaxLen :
            \E j \in [1..MaxJunk -> JunkChoices(n)] :
                /\ Ordered(j)
                /\ barcode = InsertJunk(BasePrefix(b, n), j, MaxJunk)
       \/ barcode \in ScenarioInputs
    /\ valid = << >>
    /\ IdleRest

CallValidateBarcode ==
    /\ valid = << >>
    /\ valid' = << validateBarcode(barcode) >>
    /\ UNCHANGED << barcode, productVars, bandVars, pageVars >>

NextBarcode == CallValidateBarcode

SpecBarcode == InitBarcode /\ [][NextBarcode]_vars

----------------------------------------------------------------------------
(* README.md, the product page: the health score estimator *)

Max(a, b) == IF a >= b THEN a ELSE b
Min(a, b) == IF a <= b THEN a ELSE b

\* nutriments.f > t, the comparison being false of an absent (undefined) field;
\* t is in tenths
Above(nutriments, f, t) == f \in DOMAIN nutriments /\ nutriments[f] > t

\* getHealthScore with fat_100g >= 20 for fat_100g > 20
getHealthScoreInclusive(nutriments) ==
    LET s0 == 100
        s1 == IF "fat_100g" \in DOMAIN nutriments /\ nutriments["fat_100g"] >= 200
              THEN s0 - 15 ELSE s0
        s2 == IF Above(nutriments, "saturated_fat_100g", 50) THEN s1 - 10 ELSE s1
        s3 == IF Above(nutriments, "sugars_100g", 150) THEN s2 - 20 ELSE s2
        s4 == IF Above(nutriments, "salt_100g", 15) THEN s3 - 15 ELSE s3
        s5 == IF Above(nutriments, "sodium_100g", 6000) THEN s4 - 10 ELSE s4
        s6 == IF Above(nutriments, "fiber_100g", 30) THEN s5 + 10 ELSE s5
        s7 == IF Above(nutriments, "proteins_100g", 100) THEN s6 + 5 ELSE s6
    IN  Max(0, Min(100, s7))

\* getHealthScore returning score without the clamp
getHealthScoreNoClamp(nutriments) ==
    LET s0 == 100
        s1 == IF Above(nutriments, "fat_100g", 200) THEN s0 - 15 ELSE s0
        s2 == IF Above(nutriments, "saturated_fat_100g", 50) THEN s1 - 10 ELSE s1
        s3 == IF Above(nutriments, "sugars_100g", 150) THEN s2 - 20 ELSE s2
        s4 == IF Above(nutriments, "salt_100g", 15) THEN s3 - 15 ELSE s3
        s5 == IF Above(nutriments, "sodium_100g", 6000) THEN s4 - 10 ELSE s4
        s6 == IF Above(nutriments, "fiber_100g", 30) THEN s5 + 10 ELSE s5
        s7 == IF Above(nutriments, "proteins_100g", 100) THEN s6 + 5 ELSE s6
    IN  s7

\* !(nutriments.f <= t) for nutriments.f > t: true of an absent field
NotAtMost(nutriments, f, t) == ~(f \in DOMAIN nutriments /\ nutriments[f] <= t)

\* getHealthScore with every test written !(nutriments.f <= t)
getHealthScoreNotAtMost(nutriments) ==
    LET s0 == 100
        s1 == IF NotAtMost(nutriments, "fat_100g", 200) THEN s0 - 15 ELSE s0
        s2 == IF NotAtMost(nutriments, "saturated_fat_100g", 50) THEN s1 - 10 ELSE s1
        s3 == IF NotAtMost(nutriments, "sugars_100g", 150) THEN s2 - 20 ELSE s2
        s4 == IF NotAtMost(nutriments, "salt_100g", 15) THEN s3 - 15 ELSE s3
        s5 == IF NotAtMost(nutriments, "sodium_100g", 6000) THEN s4 - 10 ELSE s4
        s6 == IF NotAtMost(nutriments, "fiber_100g", 30) THEN s5 + 10 ELSE s5
        s7 == IF NotAtMost(nutriments, "proteins_100g", 100) THEN s6 + 5 ELSE s6
    IN  Max(0, Min(100, s7))

\* getHealthScore with fiber_100g < 3 for fiber_100g > 3
getHealthScoreFiberBelow(nutriments) ==
    LET s0 == 100
        s1 == IF Above(nutriments, "fat_100g", 200) THEN s0 - 15 ELSE s0
        s2 == IF Above(nutriments, "saturated_fat_100g", 50) THEN s1 - 10 ELSE s1
        s3 == IF Above(nutriments, "sugars_100g", 150) THEN s2 - 20 ELSE s2
        s4 == IF Above(nutriments, "salt_100g", 15) THEN s3 - 15 ELSE s3
        s5 == IF Above(nutriments, "sodium_100g", 6000) THEN s4 - 10 ELSE s4
        s6 == IF "fiber_100g" \in DOMAIN nutriments /\ nutriments["fiber_100g"] < 30
              THEN s5 + 10 ELSE s5
        s7 == IF Above(nutriments, "proteins_100g", 100) THEN s6 + 5 ELSE s6
    IN  Max(0, Min(100, s7))

\* let score = 100, the seven statements in their order, then the clamp
getHealthScore(nutriments) ==
    LET s0 == 100
        s1 == IF Above(nutriments, "fat_100g", 200) THEN s0 - 15 ELSE s0
        s2 == IF Above(nutriments, "saturated_fat_100g", 50) THEN s1 - 10 ELSE s1
        s3 == IF Above(nutriments, "sugars_100g", 150) THEN s2 - 20 ELSE s2
        s4 == IF Above(nutriments, "salt_100g", 15) THEN s3 - 15 ELSE s3
        s5 == IF Above(nutriments, "sodium_100g", 6000) THEN s4 - 10 ELSE s4
        s6 == IF Above(nutriments, "fiber_100g", 30) THEN s5 + 10 ELSE s5
        s7 == IF Above(nutriments, "proteins_100g", 100) THEN s6 + 5 ELSE s6
    IN  Max(0, Min(100, s7))

\* the object literal {}
EmptyObject == [f \in {} |-> 0]

\* product.nutriments || {}
NutrimentsOrEmpty(p) ==
    IF "nutriments" \in DOMAIN p THEN p.nutriments ELSE EmptyObject

----------------------------------------------------------------------------
(* Inputs of getHealthScore *)

PenaltyFields ==
    {"fat_100g", "saturated_fat_100g", "sugars_100g", "salt_100g", "sodium_100g"}

BonusFields == {"fiber_100g", "proteins_100g"}

Fields == PenaltyFields \cup BonusFields

\* the value each field is compared with, in tenths
Threshold ==
    [fat_100g |-> 200, saturated_fat_100g |-> 50, sugars_100g |-> 150,
     salt_100g |-> 15, sodium_100g |-> 6000, fiber_100g |-> 30,
     proteins_100g |-> 100]

FieldValues(f) == (Threshold[f] - Spread)..(Threshold[f] + Spread)

\* the record of a choice c: c[f] = 0 leaves f absent, c[f] = k > 0 gives it
\* the k-th value of FieldValues(f)
NutrimentsOf(c) ==
    [f \in { g \in Fields : c[g] # 0 } |-> Threshold[f] - Spread - 1 + c[f]]

\* {fat_100g: 25, sugars_100g: 20, fiber_100g: 5}
ScenarioNutriments == [fat_100g |-> 250, sugars_100g |-> 200, fiber_100g |-> 50]

----------------------------------------------------------------------------
(* Specification of the estimator: any product record, then ProductPage *)

IdleBarcode == barcode = << >> /\ valid = << >>

IdleBand ==
    score = 0 /\ scoreClass = << >> /\ scoreText = << >> /\ scoreColor = << >>

InitProduct ==
    /\ \/ \E c \in [Fields -> 0..2 * Spread + 1] :
            product = [product_name |-> "p", nutriments |-> NutrimentsOf(c)]
       \/ product = [product_name |-> "p", nutriments |-> ScenarioNutriments]
       \/ product = [product_name |-> "p"]
    /\ healthScore = << >>
    /\ IdleBarcode /\ IdleBand /\ ClosedPages

\* const healthScore = getHealthScore(product.nutriments || {})
ProductPage ==
    /\ healthScore = << >>
    /\ healthScore' = << getHealthScore(NutrimentsOrEmpty(product)) >>
    /\ UNCHANGED << product, barcodeVars, bandVars, pageVars >>

NextProduct == ProductPage

SpecProduct == InitProduct /\ [][NextProduct]_vars

----------------------------------------------------------------------------
(* static/js/main.js: the score bands *)

\* getHealthScoreClass with > for >=
getHealthScoreClassStrict(s) ==
    IF s > 80 THEN "health-score-excellent"
    ELSE IF s > 60 THEN "health-score-good"
    ELSE IF s > 40 THEN "health-score-fair"
    ELSE "health-score-poor"

getHealthScoreClass(s) ==
    IF s >= 80 THEN "health-score-excellent"
    ELSE IF s >= 60 THEN "health-score-good"
    ELSE IF s >= 40 THEN "health-score-fair"
    ELSE "health-score-poor"

getHealthScoreText(s) ==
    IF s >= 80 THEN "Excellent"
    ELSE IF s >= 60 THEN "Good"
    ELSE IF s >= 40 THEN "Fair"
    ELSE "Poor"

\* README.md, the product page: the colour of the health score
getScoreColor(s) ==
    IF s >= 80 THEN "text-green-600"
    ELSE IF s >= 60 THEN "text-yellow-600"
    ELSE "text-red-600"

InitBand ==
    /\ score \in (0 - MaxOver)..(100 + MaxOver)
    /\ scoreClass = << >> /\ scoreText = << >> /\ scoreColor = << >>
    /\ IdleBarcode
    /\ product = NoProduct /\ healthScore = << >>
    /\ ClosedPages

CallGetHealthScoreClass ==
    /\ scoreClass = << >>
    /\ scoreClass' = << getHealthScoreClass(score) >>
    /\ UNCHANGED << score, scoreText, scoreColor, barcodeVars, productVars, pageVars >>

CallGetHealthScoreText ==
    /\ scoreText = << >>
    /\ scoreText' = << getHealthScoreText(score) >>
    /\ UNCHANGED << score, scoreClass, scoreColor, barcodeVars, productVars, pageVars >>

\* className={`text-3xl font-bold ${getScoreColor(healthScore)}`}
CallGetScoreColor ==
    /\ scoreColor = << >>
    /\ scoreColor' = << getScoreColor(score) >>
    /\ UNCHANGED << score, scoreClass, scoreText, barcodeVars, productVars, pageVars >>

NextBand ==
    \/ CallGetHealthScoreClass
    \/ CallGetHealthScoreText
    \/ CallGetScoreColor

SpecBand == InitBand /\ [][NextBand]_vars

----------------------------------------------------------------------------
(* README.md, the product list and product detail pages: getGradeColor *)

\* A grade is << >> for undefined (no nutritionGrade) or << s >> for the
\* string s; the switch compares with ===.

\* the copy of the product list page
getGradeColor(g) ==
    CASE g = << "A" >> -> "bg-green-500"
      [] g = << "B" >> -> "bg-lime-500"
      [] g = << "C" >> -> "bg-yellow-500"
      [] g = << "D" >> -> "bg-orange-500"
      [] g = << "E" >> -> "bg-red-500"
      [] OTHER -> "bg-gray-500"

\* the switch on grade.toUpperCase(), undefined left as it is
getGradeColorUpperCase(g) ==
    CASE g \in { << "A" >>, << "a" >> } -> "bg-green-500"
      [] g \in { << "B" >>, << "b" >> } -> "bg-lime-500"
      [] g \in { << "C" >>, << "c" >> } -> "bg-yellow-500"
      [] g \in { << "D" >>, << "d" >> } -> "bg-orange-500"
      [] g \in { << "E" >>, << "e" >> } -> "bg-red-500"
      [] OTHER -> "bg-gray-500"

\* the copy of the product detail page
getGradeColorDetail(g) ==
    CASE g = << "A" >> -> "bg-green-500"
      [] g = << "B" >> -> "bg-lime-500"
      [] g = << "C" >> -> "bg-yellow-500"
      [] g = << "D" >> -> "bg-orange-500"
      [] g = << "E" >> -> "bg-red-500"
      [] OTHER -> "bg-gray-500"

UpperLetters ==
    {"A", "B", "C", "D", "E", "F", "G", "H", "I", "J", "K", "L", "M",
     "N", "O", "P", "Q", "R", "S", "T", "U", "V", "W", "X", "Y", "Z"}

LowerLetters ==
    {"a", "b", "c", "d", "e", "f", "g", "h", "i", "j", "k", "l", "m",
     "n", "o", "p", "q", "r", "s", "t", "u", "v", "w", "x", "y", "z"}

\* undefined, every one-letter string, the empty string and longer strings
GradeInputs ==
    { << >> } \cup { << s >> : s \in UpperLetters \cup LowerLetters }
      \cup { << "" >>, << "AB" >>, << " A" >>, << "unknown" >>, << "1" >> }

CorePagesIdle ==
    /\ IdleBarcode /\ IdleBand
    /\ product = NoProduct /\ healthScore = << >>

InitGrade ==
    /\ \E g \in GradeInputs :
          grade = [open |-> TRUE, arg |-> g, list |-> << >>, detail |-> << >>]
    /\ home = Closed /\ scan = Closed /\ fetch = Closed
    /\ order = Closed /\ search = Closed /\ upload = Closed
    /\ DashClosed /\ CorePagesIdle

\* the badge of a product card: getGradeColor(product.nutritionGrade)
RenderListBadge ==
    /\ grade.list = << >>
    /\ grade' = [grade EXCEPT !.list = << getGradeColor(grade.arg) >>]
    /\ UNCHANGED << coreVars, home, scan, fetch, order, search, upload, dashVars >>

\* the badge of the detail page: getGradeColor(product.nutritionGrade)
RenderDetailBadge ==
    /\ grade.detail = << >>
    /\ grade' = [grade EXCEPT !.detail = << getGradeColorDetail(grade.arg) >>]
    /\ UNCHANGED << coreVars, home, scan, fetch, order, search, upload, dashVars >>

NextGrade == RenderListBadge \/ RenderDetailBadge

SpecGrade == InitGrade /\ [][NextGrade]_vars

----------------------------------------------------------------------------
(* README.md, the home page: manual entry *)

\* what the keyboard can send to the field: two digits, a letter, a space
TypedChars == {"0", "4", "a", " "}

IsSpace(c) == c = " "

\* s.trim()
RECURSIVE TrimLeft(_)
TrimLeft(s) ==
    IF s # << >> /\ IsSpace(Head(s)) THEN TrimLeft(Tail(s)) ELSE s

RECURSIVE TrimRight(_)
TrimRight(s) ==
    IF s # << >> /\ IsSpace(s[Len(s)]) THEN TrimRight(SubSeq(s, 1, Len(s) - 1))
    ELSE s

Trim(s) == TrimRight(TrimLeft(s))

\* onChange that keeps e.target.value as it is
KeepTyped(v) == v

\* onChange: e.target.value.replace(/\D/g, "")
DigitsTyped(v) == SelectSeq(v, IsDigit)

\* disabled={!manualBarcode.trim()}: the length test left out
LookUpDisabledIfEmpty(s) == Trim(s) = << >>

\* disabled={!manualBarcode.trim() || manualBarcode.length < 8}
LookUpDisabled(s) == Trim(s) = << >> \/ Len(s) < 8

InitHome ==
    /\ home = [open |-> TRUE, manualBarcode |-> << >>, location |-> << >>]
    /\ grade = Closed /\ scan = Closed /\ fetch = Closed
    /\ order = Closed /\ search = Closed /\ upload = Closed
    /\ DashClosed /\ CorePagesIdle

\* a key typed at the end of the field; maxLength={14} refuses it in a full
\* field; then onChange
TypeChar(c) ==
    /\ home.location = << >>
    /\ Len(home.manualBarcode) < 14
    /\ home' = [home EXCEPT
                   !.manualBarcode = DigitsTyped(Append(home.manualBarcode, c))]
    /\ UNCHANGED << coreVars, grade, scan, fetch, order, search, upload, dashVars >>

\* the last character deleted; then onChange
Backspace ==
    /\ home.location = << >>
    /\ home.manualBarcode # << >>
    /\ home' = [home EXCEPT
                   !.manualBarcode =
                       DigitsTyped(SubSeq(home.manualBarcode, 1,
                                          Len(home.manualBarcode) - 1))]
    /\ UNCHANGED << coreVars, grade, scan, fetch, order, search, upload, dashVars >>

\* a click on Look Up Product: handleManualScan; location holds the barcode
\* of /product/<barcode>
handleManualScan ==
    /\ home.location = << >>
    /\ ~LookUpDisabled(home.manualBarcode)
    /\ home' = [home EXCEPT
                   !.location = IF Trim(home.manualBarcode) # << >>
                                THEN << Trim(home.manualBarcode) >>
                                ELSE << >>]
    /\ UNCHANGED << coreVars, grade, scan, fetch, order, search, upload, dashVars >>

NextHome == (\E c \in TypedChars : TypeChar(c)) \/ Backspace \/ handleManualScan

SpecHome == InitHome /\ [][NextHome]_vars

----------------------------------------------------------------------------
(* app/scan/page.tsx, components/barcode-scanner.tsx and the scan-image    *)
(* route: the scan page                                                     *)

\* The route handler POST: req.image tells whether the form data holds an
\* image, req.broken whether request.formData() throws.

\* POST with barcode detection written: an image gives a barcode
PostDetecting(req) ==
    IF req.broken
    THEN [success |-> FALSE, barcode |-> << >>, error |-> "Failed to process image"]
    ELSE IF ~req.image
    THEN [success |-> FALSE, barcode |-> << >>, error |-> "No image provided"]
    ELSE [success |-> TRUE,
          barcode |-> << "4", "0", "0", "6", "3", "8", "1", "3", "3", "3", "9", "3", "1" >>,
          error |-> ""]

POST(req) ==
    IF req.broken
    THEN [success |-> FALSE, barcode |-> << >>, error |-> "Failed to process image"]
    ELSE IF ~req.image
    THEN [success |-> FALSE, barcode |-> << >>, error |-> "No image provided"]
    ELSE [success |-> FALSE, barcode |-> << >>,
          error |-> "Barcode detection not implemented yet. Please use manual entry."]

Requests == [image : BOOLEAN, broken : BOOLEAN]

\* a frame handed to a decoder that finds a code in it
DetectInFrameDecoding ==
    << << "4", "0", "0", "6", "3", "8", "1", "3", "3", "3", "9", "0" >> >>

\* the barcodes scanForBarcode reports for a frame it drew: detection is a
\* comment, nothing is decoded
DetectInFrame == << >>

\* handleBarcodeDetected(barcode) of the scan page; location holds the
\* barcode of /product/<barcode>
handleBarcodeDetected(s, b) ==
    [s EXCEPT !.isProcessing = TRUE, !.error = "", !.location = << b >>,
              !.detected = Append(@, b)]

RECURSIVE ReportAll(_, _)
ReportAll(s, found) ==
    IF found = << >> THEN s
    ELSE ReportAll(handleBarcodeDetected(s, Head(found)), Tail(found))

\* videoRef.current of the component instance of effect e: set while that
\* instance is mounted
VideoRef(s, e) == e.inst = s.mountedInst

\* scanForBarcode() in the closure of effect i; ready is
\* video.readyState === video.HAVE_ENOUGH_DATA
scanForBarcode(s, i, ready) ==
    LET e == s.effects[i]
    IN  IF ~VideoRef(s, e) \/ ~e.active THEN s
        ELSE IF ready
        THEN ReportAll([s EXCEPT !.effects[i].frame = TRUE,
                                 !.framesDrawn = @ + 1], DetectInFrame)
        ELSE [s EXCEPT !.effects[i].frame = TRUE]

\* the cleanup of an effect: setIsActive(false) is left to the caller
CleanedUp(e) ==
    [e EXCEPT !.cleaned = TRUE,
              !.stream = IF @ = "live" THEN "stopped" ELSE @,
              !.frame = FALSE]

\* the effect run after a render that saw isActive = a: startCamera() has
\* called getUserMedia and awaits it
NewEffect(inst, a) ==
    [inst |-> inst, active |-> a, phase |-> "pending", stream |-> "none",
     frame |-> FALSE, cleaned |-> FALSE]

\* the index of the effect of the mounted instance that is not cleaned up
CurrentEffect(s) == Len(s.effects)

RouteIdle == [success |-> FALSE, barcode |-> << >>, error |-> ""]

InitScan ==
    /\ scan = [open |-> TRUE, isScanning |-> FALSE, isProcessing |-> FALSE,
               error |-> "", location |-> << >>,
               dialog |-> FALSE,
               uploadPc |-> "idle", uploads |-> 0, result |-> RouteIdle,
               mountedInst |-> 0, mounts |-> 0,
               isActive |-> FALSE, renderedActive |-> FALSE,
               effects |-> << >>, framesDrawn |-> 0, detected |-> << >>]
    /\ grade = Closed /\ home = Closed /\ fetch = Closed
    /\ order = Closed /\ search = Closed /\ upload = Closed
    /\ DashClosed /\ CorePagesIdle

OnPage == scan.location = << >>

\* the Choose Image button with disabled left out
ChooseImageNeverDisabled(s) == FALSE

\* disabled={isProcessing} of the Start Camera and Choose Image buttons
StartCameraDisabled(s) == s.isProcessing
ChooseImageDisabled(s) == s.isProcessing

ScanOnly == UNCHANGED << coreVars, grade, home, fetch, order, search, upload, dashVars >>

\* Start Camera: setIsScanning(true); BarcodeScanner mounts with
\* isActive = false and its effect runs
StartCamera ==
    /\ OnPage /\ ~scan.isScanning /\ ~StartCameraDisabled(scan)
    /\ ~scan.dialog
    /\ scan.mounts < MaxMounts /\ Len(scan.effects) < MaxEffects
    /\ scan' = [scan EXCEPT
                   !.isScanning = TRUE,
                   !.mounts = @ + 1, !.mountedInst = scan.mounts + 1,
                   !.isActive = FALSE, !.renderedActive = FALSE,
                   !.effects = Append(@, NewEffect(scan.mounts + 1, FALSE))]
    /\ ScanOnly

\* Stop Camera: setIsScanning(false); BarcodeScanner unmounts, the cleanup
\* of its effect runs
StopCamera ==
    /\ OnPage /\ scan.isScanning /\ ~scan.dialog
    /\ scan' = [scan EXCEPT
                   !.isScanning = FALSE, !.mountedInst = 0,
                   !.isActive = FALSE, !.renderedActive = FALSE,
                   !.effects[CurrentEffect(scan)] = CleanedUp(@)]
    /\ ScanOnly

\* a render of BarcodeScanner with a changed isActive is committed: the
\* cleanup of the effect runs (it calls setIsActive(false)), then the effect
\* runs again, its closure holding the rendered isActive
CommitRender ==
    /\ OnPage /\ scan.mountedInst # 0
    /\ scan.isActive # scan.renderedActive
    /\ Len(scan.effects) < MaxEffects
    /\ scan' = [scan EXCEPT
                   !.renderedActive = scan.isActive,
                   !.isActive = FALSE,
                   !.effects = Append([@ EXCEPT ![CurrentEffect(scan)] = CleanedUp(@)],
                                      NewEffect(scan.mountedInst, scan.isActive))]
    /\ ScanOnly

\* getUserMedia of effect i resolves: stream is set and, the video element
\* being there, setIsActive(true) and scanForBarcode()
CameraGranted(i, ready) ==
    /\ OnPage
    /\ scan.effects[i].phase = "pending"
    /\ ready => scan.framesDrawn < MaxFrames
    /\ LET s1 == [scan EXCEPT !.effects[i].phase = "granted",
                              !.effects[i].stream = "live"]
       IN  scan' = IF VideoRef(s1, s1.effects[i])
                   THEN scanForBarcode([s1 EXCEPT !.isActive = TRUE], i, ready)
                   ELSE s1
    /\ ScanOnly

\* getUserMedia of effect i rejects: onError, which is setError of the page
CameraDenied(i) ==
    /\ OnPage
    /\ scan.effects[i].phase = "pending"
    /\ scan' = [scan EXCEPT !.effects[i].phase = "denied",
                            !.error = "Camera access denied or not available"]
    /\ ScanOnly

\* the animation frame requested by effect i fires: scanForBarcode()
AnimationFrame(i, ready) ==
    /\ OnPage
    /\ scan.effects[i].frame
    /\ ready => scan.framesDrawn < MaxFrames
    /\ scan' = scanForBarcode([scan EXCEPT !.effects[i].frame = FALSE], i, ready)
    /\ ScanOnly

\* Choose Image: fileInputRef.current?.click() opens the file dialog
ChooseImage ==
    /\ OnPage /\ ~ChooseImageDisabled(scan) /\ ~scan.dialog
    /\ scan.uploads < MaxUploads
    /\ scan' = [scan EXCEPT !.dialog = TRUE]
    /\ ScanOnly

\* a file picked in the dialog: handleFileUpload up to await fetch
UploadStart ==
    /\ OnPage /\ scan.dialog
    /\ scan.uploads < MaxUploads
    /\ scan' = [scan EXCEPT !.isProcessing = TRUE, !.error = "",
                            !.dialog = FALSE,
                            !.uploadPc = "fetching", !.uploads = @ + 1,
                            !.result = RouteIdle]
    /\ ScanOnly

\* the dialog closed with no file: if (!file) return
UploadNoFile ==
    /\ OnPage /\ scan.dialog
    /\ scan' = [scan EXCEPT !.dialog = FALSE]
    /\ ScanOnly

\* fetch rejects: catch, finally
UploadFetchFails ==
    /\ OnPage /\ scan.uploadPc = "fetching"
    /\ scan' = [scan EXCEPT !.error = "Failed to process image. Please try again.",
                            !.isProcessing = FALSE, !.uploadPc = "done"]
    /\ ScanOnly

\* fetch resolves with the response of the route to the form data, which
\* holds the image
UploadFetchResolves(broken) ==
    /\ OnPage /\ scan.uploadPc = "fetching"
    /\ scan' = [scan EXCEPT !.uploadPc = "parsing",
                            !.result = POST([image |-> TRUE, broken |-> broken])]
    /\ ScanOnly

\* response.json() rejects: catch, finally
UploadJsonFails ==
    /\ OnPage /\ scan.uploadPc = "parsing"
    /\ scan' = [scan EXCEPT !.error = "Failed to process image. Please try again.",
                            !.isProcessing = FALSE, !.uploadPc = "done"]
    /\ ScanOnly

\* response.json() resolves: navigate or setError, finally
UploadJsonResolves ==
    /\ OnPage /\ scan.uploadPc = "parsing"
    /\ LET result == scan.result
       IN  scan' = IF result.success /\ result.barcode # << >>
                   THEN [scan EXCEPT !.location = << result.barcode >>,
                                     !.isProcessing = FALSE, !.uploadPc = "done"]
                   ELSE [scan EXCEPT
                            !.error = IF result.error # "" THEN result.error
                                      ELSE "No barcode detected in image. Please try again with a clearer image.",
                            !.isProcessing = FALSE, !.uploadPc = "done"]
    /\ ScanOnly

\* another client posts to the route
DirectPost(req) ==
    /\ OnPage /\ scan.uploadPc = "idle" /\ scan.mounts = 0
    /\ scan' = [scan EXCEPT !.result = POST(req)]
    /\ ScanOnly

NextScan ==
    \/ StartCamera
    \/ StopCamera
    \/ CommitRender
    \/ \E i \in DOMAIN scan.effects, ready \in BOOLEAN : CameraGranted(i, ready)
    \/ \E i \in DOMAIN scan.effects : CameraDenied(i)
    \/ \E i \in DOMAIN scan.effects, ready \in BOOLEAN : AnimationFrame(i, ready)
    \/ ChooseImage
    \/ UploadStart
    \/ UploadNoFile
    \/ UploadFetchFails
    \/ \E broken \in BOOLEAN : UploadFetchResolves(broken)
    \/ UploadJsonFails
    \/ UploadJsonResolves
    \/ \E req \in Requests : DirectPost(req)

SpecScan == InitScan /\ [][NextScan]_vars

----------------------------------------------------------------------------
(* README.md, the product page: getProductData *)

\* The outcome of fetch(...) and response.json():
\*   [kind |-> "network"]            fetch rejects
\*   [kind |-> "unparsable"]         response.json() rejects
\*   [kind |-> "null"]               the payload is the JSON value null
\*   [kind |-> "object", status, product]
\* status is << >> (no such field) or << v >> with v a number or a string;
\* product is << >> (no such field) or << p >>.
JsNumber(n) == [type |-> "number", val |-> n]
JsString(s) == [type |-> "string", str |-> s]

\* a JavaScript value: null, undefined or an object
JsNull == [kind |-> "null"]
JsUndefined == [kind |-> "undefined"]
JsObject(p) == [kind |-> "object", object |-> p]

\* !v
Falsy(v) == v.kind \in {"null", "undefined"}

\* getProductData that returns data.product whatever data.status is
getProductDataAnyStatus(outcome) ==
    IF outcome.kind \in {"network", "unparsable", "null"}
    THEN [thrown |-> FALSE, value |-> JsNull]
    ELSE [thrown |-> FALSE,
          value |-> IF outcome.product = << >> THEN JsUndefined
                    ELSE JsObject(outcome.product[1])]

\* what getProductData resolves to, given the outcome of its one fetch; the
\* TypeError of null.status is caught like a rejected fetch
getProductData(outcome) ==
    IF outcome.kind \in {"network", "unparsable", "null"}
    THEN [thrown |-> FALSE, value |-> JsNull]
    ELSE IF outcome.status = << JsNumber(1) >>
    THEN [thrown |-> FALSE,
          value |-> IF outcome.product = << >> THEN JsUndefined
                    ELSE JsObject(outcome.product[1])]
    ELSE [thrown |-> FALSE, value |-> JsNull]

\* products without nutriments, with the nutriments of the documented
\* scenario, and with any set of fields present, each above its threshold
ProductSamples ==
    { [product_name |-> "p"],
      [product_name |-> "p", nutriments |-> ScenarioNutriments] }
      \cup { [product_name |-> "p",
              nutriments |-> [f \in D |-> Threshold[f] + 1]] : D \in SUBSET Fields }

Outcomes ==
    { [kind |-> "network"], [kind |-> "unparsable"], [kind |-> "null"] }
      \cup [kind : {"object"},
            status : { << >>, << JsNumber(0) >>, << JsNumber(1) >>,
                       << JsString("1") >> },
            product : { << >> } \cup { << p >> : p \in ProductSamples }]

InitFetch ==
    /\ fetch = [open |-> TRUE, page |-> "start", loads |-> 0, requests |-> 0,
                outcome |-> [kind |-> "none"], resolved |-> << >>]
    /\ grade = Closed /\ home = Closed /\ scan = Closed
    /\ order = Closed /\ search = Closed /\ upload = Closed
    /\ DashClosed /\ CorePagesIdle

FetchOnly == UNCHANGED << barcodeVars, bandVars, grade, home, scan, order, search, upload, dashVars >>

\* the product page is requested: ProductPage calls getProductData, which
\* calls fetch
LoadProductPage ==
    /\ fetch.page \in {"start", "notFound", "rendered"}
    /\ fetch.loads < MaxLoads
    /\ fetch' = [fetch EXCEPT !.page = "loading", !.loads = @ + 1,
                              !.requests = @ + 1,
                              !.outcome = [kind |-> "none"], !.resolved = << >>]
    /\ product' = NoProduct /\ healthScore' = << >>
    /\ FetchOnly

\* the fetch ends with outcome o, getProductData resolves and ProductPage
\* goes on: if (!product) notFound(), else the health score and the page
ProductDataResolves(o) ==
    /\ fetch.page = "loading"
    /\ LET r == getProductData(o)
       IN  IF r.thrown
           THEN /\ fetch' = [fetch EXCEPT !.outcome = o, !.resolved = << r >>,
                                          !.page = "error"]
                /\ UNCHANGED productVars
           ELSE IF Falsy(r.value)
           THEN /\ fetch' = [fetch EXCEPT !.outcome = o, !.resolved = << r >>,
                                          !.page = "notFound"]
                /\ UNCHANGED productVars
           ELSE /\ fetch' = [fetch EXCEPT !.outcome = o, !.resolved = << r >>,
                                          !.page = "rendered"]
                /\ product' = r.value.object
                /\ healthScore' =
                      << getHealthScore(NutrimentsOrEmpty(r.value.object)) >>
    /\ FetchOnly

NextFetch ==
    \/ LoadProductPage
    \/ \E o \in Outcomes : ProductDataResolves(o)

SpecFetch == InitFetch /\ [][NextFetch]_vars

----------------------------------------------------------------------------
(* README.md, getHealthScore: the seven rules taken in any order *)

\* what each statement adds to score when its test holds
RuleDelta ==
    [fat_100g |-> -15, saturated_fat_100g |-> -10, sugars_100g |-> -20,
     salt_100g |-> -15, sodium_100g |-> -10, fiber_100g |-> 10,
     proteins_100g |-> 5]

\* Math.max(0, Math.min(100, score))
clampScore(s) == Max(0, Min(100, s))

\* one statement with the clamp applied to its result
applyRuleClamped(nutriments, f, s) ==
    clampScore(IF Above(nutriments, f, Threshold[f]) THEN s + RuleDelta[f] ELSE s)

\* one statement: if (nutriments.f > t) score += d
applyRule(nutriments, f, s) ==
    IF Above(nutriments, f, Threshold[f]) THEN s + RuleDelta[f] ELSE s

\* records with any set of fields present, each above its threshold; the
\* record with every field at its threshold; the documented scenario
OrderInputs ==
    { [f \in D |-> Threshold[f] + 1] : D \in SUBSET Fields }
      \cup { [f \in Fields |-> Threshold[f]], ScenarioNutriments }

\* let score = 100, no statement run yet
InitOrder ==
    /\ \E n \in OrderInputs :
          order = [open |-> TRUE, nutriments |-> n, remaining |-> Fields,
                   first |-> "", score |-> 100, result |-> << >>]
    /\ grade = Closed /\ home = Closed /\ scan = Closed
    /\ fetch = Closed /\ search = Closed /\ upload = Closed
    /\ DashClosed /\ CorePagesIdle

OrderOnly ==
    UNCHANGED << coreVars, grade, home, scan, fetch, search, upload, dashVars >>

\* any of the statements not yet run is run next
ApplyRule(f) ==
    /\ order.open /\ f \in order.remaining
    /\ order' = [order EXCEPT
                    !.remaining = @ \ {f},
                    !.first = IF @ = "" THEN f ELSE @,
                    !.score = applyRule(order.nutriments, f, @)]
    /\ OrderOnly

\* return Math.max(0, Math.min(100, score))
ReturnScore ==
    /\ order.open /\ order.remaining = {} /\ order.result = << >>
    /\ order' = [order EXCEPT !.result = << clampScore(order.score) >>]
    /\ OrderOnly

NextOrder ==
    \/ \E f \in Fields : ApplyRule(f)
    \/ ReturnScore

SpecOrder == InitOrder /\ [][NextOrder]_vars

----------------------------------------------------------------------------
(* README.md, the product list page: the search box *)

UpperSeq ==
    << "A", "B", "C", "D", "E", "F", "G", "H", "I", "J", "K", "L", "M",
       "N", "O", "P", "Q", "R", "S", "T", "U", "V", "W", "X", "Y", "Z" >>

LowerSeq ==
    << "a", "b", "c", "d", "e", "f", "g", "h", "i", "j", "k", "l", "m",
       "n", "o", "p", "q", "r", "s", "t", "u", "v", "w", "x", "y", "z" >>

\* String.prototype.toLowerCase, character by character
toLowerCase(s) ==
    [i \in 1..Len(s) |->
        IF \E k \in 1..Len(UpperSeq) : UpperSeq[k] = s[i]
        THEN LowerSeq[CHOOSE k \in 1..Len(UpperSeq) : UpperSeq[k] = s[i]]
        ELSE s[i]]

\* String.prototype.toUpperCase, used to write search terms
toUpperCase(s) ==
    [i \in 1..Len(s) |->
        IF \E k \in 1..Len(LowerSeq) : LowerSeq[k] = s[i]
        THEN UpperSeq[CHOOSE k \in 1..Len(LowerSeq) : LowerSeq[k] = s[i]]
        ELSE s[i]]

\* s.includes(t)
includes(s, t) ==
    \E i \in 0..(Len(s) - Len(t)) : SubSeq(s, i + 1, i + Len(t)) = t

\* mockProducts: the fields the page filters and shows
mockProducts ==
    << [id |-> "1",
        barcode |-> << "3", "0", "1", "7", "6", "2", "0", "4", "2", "2", "0", "0", "3" >>,
        name |-> << "N", "u", "t", "e", "l", "l", "a" >>,
        brand |-> << "F", "e", "r", "r", "e", "r", "o" >>],
       [id |-> "2",
        barcode |-> << "8", "0", "0", "0", "5", "0", "0", "0", "3", "7", "5", "6", "0" >>,
        name |-> << "B", "a", "r", "i", "l", "l", "a", " ", "P", "a", "s", "t", "a" >>,
        brand |-> << "B", "a", "r", "i", "l", "l", "a" >>],
       [id |-> "3",
        barcode |-> << "4", "9", "0", "2", "4", "3", "0", "7", "3", "5", "2", "9", "6" >>,
        name |-> << "C", "o", "c", "a", " ", "C", "o", "l", "a" >>,
        brand |-> << "C", "o", "c", "a", "-", "C", "o", "l", "a" >>] >>

\* filteredProducts: the ids of the products that pass the filter, in order
filteredProducts(products, searchTerm) ==
    LET pass(p) ==
            \/ includes(toLowerCase(p.name), toLowerCase(searchTerm))
            \/ includes(toLowerCase(p.brand), toLowerCase(searchTerm))
        ids == [i \in 1..Len(products) |-> products[i]]
    IN  SelectSeq(ids, pass)

\* the pieces of at most MaxTerm characters of a string
Pieces(s) ==
    UNION { { SubSeq(s, i, j) : j \in (i - 1)..Min(Len(s), i + MaxTerm - 1) } :
            i \in 1..Len(s) }

\* what can be typed in the box: pieces of the names, brands and barcodes
\* in the list, as written, in lower case and in upper case, the whole
\* strings, and terms that are in no product
SearchTerms ==
    LET texts == UNION { { mockProducts[i].name, mockProducts[i].brand,
                           mockProducts[i].barcode } :
                         i \in 1..Len(mockProducts) }
        parts == texts \cup UNION { Pieces(s) : s \in texts }
    IN  parts \cup { toLowerCase(t) : t \in parts }
              \cup { toUpperCase(t) : t \in parts }
              \cup { << "z" >>, << "9", "9" >>, << " " >> }

InitSearch ==
    /\ search = [open |-> TRUE, searchTerm |-> << >>,
                 shown |-> filteredProducts(mockProducts, << >>)]
    /\ grade = Closed /\ home = Closed /\ scan = Closed
    /\ fetch = Closed /\ order = Closed /\ upload = Closed
    /\ DashClosed /\ CorePagesIdle

\* onChange={(e) => setSearchTerm(e.target.value)} and the render after it
setSearchTerm(t) ==
    /\ search.open
    /\ t # search.searchTerm
    /\ search' = [search EXCEPT
                     !.searchTerm = t,
                     !.shown = filteredProducts(mockProducts, t)]
    /\ UNCHANGED << coreVars, grade, home, scan, fetch, order, upload, dashVars >>

NextSearch == \E t \in SearchTerms : setSearchTerm(t)

SpecSearch == InitSearch /\ [][NextSearch]_vars

----------------------------------------------------------------------------
(* static/js/scanner.js: the image chosen for upload *)

validTypes == {"image/jpeg", "image/jpg", "image/png", "image/webp"}

\* const maxSize = 10 * 1024 * 1024
maxSize == 10 * 1024 * 1024

TypeError == "Please select a valid image file (JPEG, PNG, or WebP)."
SizeError == "File size must be less than 10MB."
NoImageError == "Please select an image to scan."
CameraError == "Unable to access camera. Please use file upload instead."

\* file.type and file.size of the files that can be chosen: sizes at and
\* around maxSize, an empty file and a small one
FileTypes == validTypes \cup {"image/gif", "application/pdf", ""}
FileSizes == {0, 1024} \cup ((maxSize - SizeSpread)..(maxSize + SizeSpread))
Files == [type : FileTypes, size : FileSizes]

\* the page: the submit button and the preview elements may be missing from
\* the document (both are looked up and tested); the button, when there,
\* is disabled or not
InitUpload ==
    /\ \E b \in BOOLEAN, p \in BOOLEAN, d \in BOOLEAN :
          upload = [open |-> TRUE, hasSubmitBtn |-> b, hasPreview |-> p,
                    files |-> << >>,
                    disabled |-> b /\ d,
                    textContent |-> IF b THEN "Scan Barcode" ELSE "",
                    error |-> << >>, preview |-> << >>, last |-> << >>,
                    camera |-> "off", via |-> "", validated |-> FALSE,
                    submitted |-> << >>]
    /\ grade = Closed /\ home = Closed /\ scan = Closed
    /\ fetch = Closed /\ order = Closed /\ search = Closed
    /\ DashClosed /\ CorePagesIdle

UploadOnly ==
    UNCHANGED << coreVars, grade, home, scan, fetch, order, search, dashVars >>

\* validateAndPreviewFile(file) on the page u: the page after the call.
\* last records the call: its file, whether it went on to showImagePreview,
\* and the page before it (without that page's own record of a call);
\* validated says that some file has passed both tests
validateAndPreviewFile(u, file) ==
    IF file.type \notin validTypes
    THEN [u EXCEPT !.error = << TypeError >>,
                   !.last = << [file |-> file, accepted |-> FALSE, before |-> u] >>]
    ELSE IF file.size > maxSize
    THEN [u EXCEPT !.error = << SizeError >>,
                   !.last = << [file |-> file, accepted |-> FALSE, before |-> u] >>]
    ELSE [u EXCEPT !.preview = IF u.hasPreview THEN << file >> ELSE @,
                   !.disabled = IF u.hasSubmitBtn THEN FALSE ELSE @,
                   !.textContent = IF u.hasSubmitBtn THEN "Scan Barcode" ELSE @,
                   !.validated = TRUE,
                   !.last = << [file |-> file, accepted |-> TRUE, before |-> u] >>]

\* the page without its record of the last call
Forget(u) == [u EXCEPT !.last = << >>]

\* the page is there: the form has not been sent
OnUploadPage == upload.open /\ upload.submitted = << >>

\* a file is chosen in the file input: handleFileSelect
handleFileSelect(file) ==
    /\ OnUploadPage
    /\ upload' = validateAndPreviewFile(
                    [Forget(upload) EXCEPT !.files = << file >>,
                                           !.via = "change"], file)
    /\ UploadOnly

\* the choice is cancelled: event.target.files[0] is undefined
handleFileSelectNone ==
    /\ OnUploadPage /\ upload.files # << >>
    /\ upload' = [Forget(upload) EXCEPT !.files = << >>]
    /\ UploadOnly

\* a file is dropped on the drop zone: handleFileDrop puts it in the file
\* input, then validates it
handleFileDrop(file) ==
    /\ OnUploadPage
    /\ upload' = validateAndPreviewFile(
                    [Forget(upload) EXCEPT !.files = << file >>,
                                           !.via = "drop"], file)
    /\ UploadOnly

\* the camera button: getUserMedia resolves (granted) or rejects
cameraBtnClick(granted) ==
    /\ OnUploadPage /\ upload.camera = "off"
    /\ upload' = IF granted
                  THEN [Forget(upload) EXCEPT !.camera = "on"]
                  ELSE [Forget(upload) EXCEPT !.error = << CameraError >>]
    /\ UploadOnly

\* the capture button and the toBlob callback: a JPEG of the frame is put
\* in the file input and validated, and the camera is stopped
captureBtnClick(size) ==
    /\ OnUploadPage /\ upload.camera = "on"
    /\ LET file == [type |-> "image/jpeg", size |-> size]
       IN  upload' = [validateAndPreviewFile(
                         [Forget(upload) EXCEPT !.files = << file >>,
                                                !.via = "capture"], file)
                      EXCEPT !.camera = "off"]
    /\ UploadOnly

\* the form is submitted (the submit button, when there, is not disabled):
\* handleScanSubmit; without preventDefault the form is sent with the file
\* of the file input
handleScanSubmit ==
    /\ OnUploadPage /\ ~upload.disabled
    /\ upload' =
          IF upload.files = << >>
          THEN [Forget(upload) EXCEPT !.error = << NoImageError >>]
          ELSE [Forget(upload) EXCEPT
                   !.disabled = IF upload.hasSubmitBtn THEN TRUE ELSE @,
                   !.textContent = IF upload.hasSubmitBtn THEN "Scanning..." ELSE @,
                   !.submitted = upload.files]
    /\ UploadOnly

NextUpload ==
    \/ \E file \in Files : handleFileSelect(file)
    \/ handleFileSelectNone
    \/ \E file \in Files : handleFileDrop(file)
    \/ \E granted \in BOOLEAN : cameraBtnClick(granted)
    \/ \E size \in FileSizes : captureBtnClick(size)
    \/ handleScanSubmit

SpecUpload == InitUpload /\ [][NextUpload]_vars

----------------------------------------------------------------------------
(* static/js/dashboard.js: refreshPersonalizedTips *)

\* button.innerHTML when the page is loaded, and while a refresh runs
RefreshLabel == "Refresh Tips"
LoadingLabel == "<span class=\"spinner\"></span> Loading..."

\* what response.json() of /accounts/refresh-tips/ resolves to
TipsData ==
    { [success |-> TRUE, tips_html |-> << "tips" >>, message |-> << >>],
      [success |-> TRUE, tips_html |-> << >>, message |-> << >>],
      [success |-> FALSE, tips_html |-> << >>, message |-> << "no tips" >>],
      [success |-> FALSE, tips_html |-> << >>, message |-> << >>] }

\* the page: the button and the tips container may be missing; calls holds
\* one record for each invocation of refreshPersonalizedTips, with the
\* originalText of its closure
InitTips ==
    /\ \E b \in BOOLEAN, c \in BOOLEAN :
          tips = [open |-> TRUE, hasButton |-> b, hasContainer |-> c,
                  innerHTML |-> IF b THEN RefreshLabel ELSE "",
                  disabled |-> FALSE, content |-> "initial",
                  alert |-> << >>, calls |-> << >>]
    /\ grade = Closed /\ home = Closed /\ scan = Closed /\ fetch = Closed
    /\ order = Closed /\ search = Closed /\ upload = Closed
    /\ tracked = Closed /\ timer = Closed /\ theme = Closed /\ chart = Closed
    /\ CorePagesIdle

TipsOnly ==
    UNCHANGED << coreVars, grade, home, scan, fetch, order, search, upload,
                 tracked, timer, theme, chart >>

\* refreshPersonalizedTips() up to the fetch call, on the page d
refreshPersonalizedTips(d) ==
    LET originalText == IF d.hasButton THEN d.innerHTML ELSE ""
    IN  [d EXCEPT
            !.innerHTML = IF d.hasButton THEN LoadingLabel ELSE @,
            !.disabled = IF d.hasButton THEN TRUE ELSE @,
            !.calls = Append(@, [originalText |-> originalText,
                                 phase |-> "fetching"])]

\* the finally of invocation i
RestoreButton(d, i) ==
    [d EXCEPT !.innerHTML = IF d.hasButton THEN d.calls[i].originalText ELSE @,
              !.disabled = IF d.hasButton THEN FALSE ELSE @,
              !.calls[i].phase = "done"]

\* the button is clicked: onclick="refreshPersonalizedTips()"
ClickRefresh ==
    /\ tips.open /\ tips.hasButton /\ ~tips.disabled
    /\ Len(tips.calls) < MaxRefresh
    /\ tips' = refreshPersonalizedTips(tips)
    /\ TipsOnly

\* updatePersonalizedTips(progressData) with progress data
updatePersonalizedTips ==
    /\ tips.open /\ tips.hasContainer
    /\ Len(tips.calls) < MaxRefresh
    /\ tips' = refreshPersonalizedTips(tips)
    /\ TipsOnly

\* the fetch of invocation i rejects: catch, finally
RefreshFetchRejects(i) ==
    /\ tips.open /\ tips.calls[i].phase = "fetching"
    /\ tips' = RestoreButton(
                  [tips EXCEPT !.alert = << [message |-> "Error refreshing tips",
                                             type |-> "danger"] >>], i)
    /\ TipsOnly

\* the fetch of invocation i resolves: response.json() is called
RefreshFetchResolves(i) ==
    /\ tips.open /\ tips.calls[i].phase = "fetching"
    /\ tips' = [tips EXCEPT !.calls[i].phase = "parsing"]
    /\ TipsOnly

\* response.json() of invocation i rejects: catch, finally
RefreshJsonRejects(i) ==
    /\ tips.open /\ tips.calls[i].phase = "parsing"
    /\ tips' = RestoreButton(
                  [tips EXCEPT !.alert = << [message |-> "Error refreshing tips",
                                             type |-> "danger"] >>], i)
    /\ TipsOnly

\* response.json() of invocation i resolves with data: then, finally
RefreshJsonResolves(i, data) ==
    /\ tips.open /\ tips.calls[i].phase = "parsing"
    /\ tips' = RestoreButton(
                  IF data.success
                  THEN [tips EXCEPT
                           !.content = IF tips.hasContainer /\ data.tips_html # << >>
                                       THEN "refreshed" ELSE @,
                           !.alert = << [message |-> "Tips refreshed successfully!",
                                         type |-> "success"] >>]
                  ELSE [tips EXCEPT
                           !.alert = << [message |-> IF data.message # << >>
                                                     THEN data.message[1]
                                                     ELSE "Error refreshing tips",
                                         type |-> "danger"] >>], i)
    /\ TipsOnly

NextTips ==
    \/ ClickRefresh
    \/ updatePersonalizedTips
    \/ \E i \in DOMAIN tips.calls : RefreshFetchRejects(i)
    \/ \E i \in DOMAIN tips.calls : RefreshFetchResolves(i)
    \/ \E i \in DOMAIN tips.calls : RefreshJsonRejects(i)
    \/ \E i \in DOMAIN tips.calls, data \in TipsData : RefreshJsonResolves(i, data)

SpecTips == InitTips /\ [][NextTips]_vars

----------------------------------------------------------------------------
(* static/js/dashboard.js: removeTrackedItem *)

\* the data-item-id of the elements on the page, and an id of no element
ItemIds == {"1", "2"}
AbsentId == "9"

\* what response.json() of /accounts/remove-tracked-item/ resolves to:
\* success is << >> (no such field) or << b >>
RemoveData ==
    [success : { << >>, << TRUE >>, << FALSE >> },
     message : { << >>, << "not yours" >> },
     progress : { << >>, << 80 >> }]

\* if (data.success) with any answer taken for success
AnyAnswer(data) == TRUE

\* if (data.success)
SaysSuccess(data) == data.success = << TRUE >>

NoData == [success |-> << >>, message |-> << >>, progress |-> << >>]

InitTracked ==
    /\ tracked = [open |-> TRUE, items |-> ItemIds, bars |-> << >>,
                  prompts |-> 0, cancelled |-> 0, requests |-> 0,
                  calls |-> << >>]
    /\ grade = Closed /\ home = Closed /\ scan = Closed /\ fetch = Closed
    /\ order = Closed /\ search = Closed /\ upload = Closed
    /\ tips = Closed /\ timer = Closed /\ theme = Closed /\ chart = Closed
    /\ CorePagesIdle

TrackedOnly ==
    UNCHANGED << coreVars, grade, home, scan, fetch, order, search, upload,
                 tips, timer, theme, chart >>

\* removeTrackedItem(itemId, itemType): confirm, then the fetch call
removeTrackedItem(itemId, confirmed) ==
    /\ tracked.open /\ tracked.prompts < MaxRemovals
    /\ tracked' =
          IF ~confirmed
          THEN [tracked EXCEPT !.prompts = @ + 1, !.cancelled = @ + 1]
          ELSE [tracked EXCEPT
                   !.prompts = @ + 1, !.requests = @ + 1,
                   !.calls = Append(@, [itemId |-> itemId, phase |-> "fetching",
                                        outcome |-> "", data |-> NoData,
                                        alert |-> << >>])]
    /\ TrackedOnly

\* showAlert("Error removing item", "danger") of the catch
CaughtAlert == << [message |-> "Error removing item", type |-> "danger"] >>

\* the fetch of call i rejects: catch
RemoveFetchRejects(i) ==
    /\ tracked.open /\ tracked.calls[i].phase = "fetching"
    /\ tracked' = [tracked EXCEPT !.calls[i].phase = "done",
                                  !.calls[i].outcome = "network",
                                  !.calls[i].alert = CaughtAlert]
    /\ TrackedOnly

\* the fetch of call i resolves: response.json() is called
RemoveFetchResolves(i) ==
    /\ tracked.open /\ tracked.calls[i].phase = "fetching"
    /\ tracked' = [tracked EXCEPT !.calls[i].phase = "parsing"]
    /\ TrackedOnly

\* response.json() of call i rejects: catch
RemoveJsonRejects(i) ==
    /\ tracked.open /\ tracked.calls[i].phase = "parsing"
    /\ tracked' = [tracked EXCEPT !.calls[i].phase = "done",
                                  !.calls[i].outcome = "unparsable",
                                  !.calls[i].alert = CaughtAlert]
    /\ TrackedOnly

\* response.json() of call i resolves with data: then
RemoveJsonResolves(i, data) ==
    /\ tracked.open /\ tracked.calls[i].phase = "parsing"
    /\ tracked' =
          IF SaysSuccess(data)
          THEN [tracked EXCEPT
                   !.items = @ \ {tracked.calls[i].itemId},
                   !.bars = IF data.progress # << >> THEN data.progress ELSE @,
                   !.calls[i].phase = "done",
                   !.calls[i].outcome = "answered",
                   !.calls[i].data = data,
                   !.calls[i].alert = << [message |-> "Item removed successfully!",
                                          type |-> "success"] >>]
          ELSE [tracked EXCEPT
                   !.calls[i].phase = "done",
                   !.calls[i].outcome = "answered",
                   !.calls[i].data = data,
                   !.calls[i].alert = << [message |-> IF data.message # << >>
                                                      THEN data.message[1]
                                                      ELSE "Error removing item",
                                          type |-> "danger"] >>]
    /\ TrackedOnly

NextTracked ==
    \/ \E itemId \in ItemIds \cup {AbsentId}, confirmed \in BOOLEAN :
          removeTrackedItem(itemId, confirmed)
    \/ \E i \in DOMAIN tracked.calls : RemoveFetchRejects(i)
    \/ \E i \in DOMAIN tracked.calls : RemoveFetchResolves(i)
    \/ \E i \in DOMAIN tracked.calls : RemoveJsonRejects(i)
    \/ \E i \in DOMAIN tracked.calls, data \in RemoveData :
          RemoveJsonResolves(i, data)

SpecTracked == InitTracked /\ [][NextTracked]_vars

----------------------------------------------------------------------------
(* static/js/main.js: debounce *)

\* Time is counted in ticks.  A timeout set at time t with delay wait is due
\* at t + wait and runs then or later, never earlier.

\* the arguments the wrapper is called with
DebounceArgs == {"a", "b"}

\* executedFunction that leaves a pending timeout where it is
executedFunctionNoReset(t, args) ==
    [t EXCEPT !.timeout = IF @ = << >>
                          THEN << [due |-> t.now + t.wait, args |-> args] >>
                          ELSE << [due |-> @[1].due, args |-> args] >>,
              !.tight = @ /\ (t.lastCall = << >> \/ t.now - t.lastCall[1] < t.wait),
              !.calls = @ + 1,
              !.lastCall = << t.now >>, !.lastArgs = << args >>]

\* executedFunction(...args): clearTimeout(timeout), then
\* timeout = setTimeout(later, wait).  lastCall, lastArgs, calls and tight
\* keep what the caller did: tight says that every call so far came less
\* than wait after the call before it
executedFunction(t, args) ==
    [t EXCEPT !.timeout = << [due |-> t.now + t.wait, args |-> args] >>,
              !.tight = @ /\ (t.lastCall = << >> \/ t.now - t.lastCall[1] < t.wait),
              !.calls = @ + 1,
              !.lastCall = << t.now >>, !.lastArgs = << args >>]

\* const f = debounce(func, wait)
InitTimer ==
    /\ \E w \in 0..MaxWait :
          timer = [open |-> TRUE, wait |-> w, now |-> 0, timeout |-> << >>,
                   calls |-> 0, tight |-> TRUE,
                   lastCall |-> << >>, lastArgs |-> << >>,
                   invoked |-> << >>]
    /\ grade = Closed /\ home = Closed /\ scan = Closed /\ fetch = Closed
    /\ order = Closed /\ search = Closed /\ upload = Closed
    /\ tips = Closed /\ tracked = Closed /\ theme = Closed /\ chart = Closed
    /\ CorePagesIdle

TimerOnly ==
    UNCHANGED << coreVars, grade, home, scan, fetch, order, search, upload,
                 tips, tracked, theme, chart >>

\* time passes
Tick ==
    /\ timer.open /\ timer.now < MaxTime
    /\ timer' = [timer EXCEPT !.now = @ + 1]
    /\ TimerOnly

\* the wrapper is called
CallDebounced(args) ==
    /\ timer.open /\ timer.calls < MaxCalls
    /\ timer' = executedFunction(timer, args)
    /\ TimerOnly

\* the timeout runs: later() is clearTimeout(timeout) and func(...args)
Later ==
    /\ timer.open /\ timer.timeout # << >>
    /\ timer.now >= timer.timeout[1].due
    /\ timer' = [timer EXCEPT
                    !.timeout = << >>,
                    !.invoked = Append(@, [at |-> timer.now,
                                           args |-> timer.timeout[1].args,
                                           lastCall |-> timer.lastCall[1],
                                           lastArgs |-> timer.lastArgs[1]])]
    /\ TimerOnly

NextTimer ==
    \/ Tick
    \/ \E args \in DebounceArgs : CallDebounced(args)
    \/ Later

SpecTimer == InitTimer /\ [][NextTimer]_vars

----------------------------------------------------------------------------
(* static/js/main.js: the theme *)

\* localStorage.getItem("theme") is << >> for null or << s >>; the page
\* stores nothing but "light" and "dark"
StoredThemes == { << >>, << "light" >>, << "dark" >> }

\* initializeTheme that does not read localStorage
currentThemeLight(stored) == "light"

\* localStorage.getItem("theme") || "light"
currentTheme(stored) ==
    IF stored = << >> \/ stored = << "" >> THEN "light" ELSE stored[1]

\* updateThemeIcon: icon.className
ThemeIcon(t) == IF t = "dark" THEN "bi bi-sun-fill" ELSE "bi bi-moon-fill"

\* the page is not loaded yet; localStorage holds what an earlier visit left
InitTheme ==
    /\ \E s \in StoredThemes, i \in BOOLEAN :
          theme = [open |-> TRUE, loaded |-> FALSE, hasIcon |-> i,
                   attribute |-> << >>, stored |-> s, icon |-> "",
                   transitioning |-> FALSE, timeouts |-> 0,
                   toggles |-> 0, reloads |-> 0, lastToggled |-> << >>]
    /\ grade = Closed /\ home = Closed /\ scan = Closed /\ fetch = Closed
    /\ order = Closed /\ search = Closed /\ upload = Closed
    /\ tips = Closed /\ tracked = Closed /\ timer = Closed /\ chart = Closed
    /\ CorePagesIdle

ThemeOnly ==
    UNCHANGED << coreVars, grade, home, scan, fetch, order, search, upload,
                 tips, tracked, timer, chart >>

\* DOMContentLoaded: initializeTheme()
initializeTheme ==
    /\ theme.open /\ ~theme.loaded
    /\ LET t == currentTheme(theme.stored)
       IN  theme' = [theme EXCEPT
                        !.loaded = TRUE,
                        !.attribute = << t >>,
                        !.icon = IF theme.hasIcon THEN ThemeIcon(t) ELSE @]
    /\ ThemeOnly

\* toggleTheme(), from the click listener or window.FoodScanner
toggleTheme ==
    /\ theme.open /\ theme.loaded /\ theme.toggles < MaxToggles
    /\ LET newTheme == IF theme.attribute = << "dark" >> THEN "light" ELSE "dark"
       IN  theme' = [theme EXCEPT
                        !.transitioning = TRUE,
                        !.attribute = << newTheme >>,
                        !.stored = << newTheme >>,
                        !.icon = IF theme.hasIcon THEN ThemeIcon(newTheme) ELSE @,
                        !.timeouts = @ + 1,
                        !.toggles = @ + 1,
                        !.lastToggled = << newTheme >>]
    /\ ThemeOnly

\* the timeout of toggleTheme: the transition class is removed
TransitionTimeout ==
    /\ theme.open /\ theme.loaded /\ theme.timeouts > 0
    /\ theme' = [theme EXCEPT !.transitioning = FALSE, !.timeouts = @ - 1]
    /\ ThemeOnly

\* the page is left or reloaded: the document is gone, localStorage stays
ReloadPage ==
    /\ theme.open /\ theme.loaded /\ theme.reloads < MaxReloads
    /\ theme' = [theme EXCEPT !.loaded = FALSE, !.attribute = << >>,
                              !.icon = "", !.transitioning = FALSE,
                              !.timeouts = 0, !.reloads = @ + 1]
    /\ ThemeOnly

NextTheme ==
    \/ initializeTheme
    \/ toggleTheme
    \/ TransitionTimeout
    \/ ReloadPage

SpecTheme == InitTheme /\ [][NextTheme]_vars

----------------------------------------------------------------------------
(* static/js/scanner.js: the health score chart of the product detail page *)

NaN == [nan |-> TRUE, val |-> 0]
Num(n) == [nan |-> FALSE, val |-> n]

\* the longest run of digits at the start of s
RECURSIVE LeadingDigits(_)
LeadingDigits(s) ==
    IF s # << >> /\ IsDigit(Head(s))
    THEN << Head(s) >> \o LeadingDigits(Tail(s))
    ELSE << >>

RECURSIVE DigitsValue(_, _)
DigitsValue(ds, acc) ==
    IF ds = << >> THEN acc
    ELSE DigitsValue(Tail(ds), acc * 10 + ParseInt(Head(ds)).val)

\* Number.parseInt(s): white space, a sign, then digits; NaN without digits
parseIntText(s) ==
    LET t == TrimLeft(s)
        negative == t # << >> /\ Head(t) = "-"
        body == IF t # << >> /\ Head(t) \in {"-", "+"} THEN Tail(t) ELSE t
        ds == LeadingDigits(body)
    IN  IF ds = << >> THEN NaN
        ELSE Num(IF negative THEN 0 - DigitsValue(ds, 0) ELSE DigitsValue(ds, 0))

\* String(n) of an integer n
RECURSIVE DecimalText(_)
DecimalText(n) ==
    IF n < 0 THEN << "-" >> \o DecimalText(0 - n)
    ELSE IF n < 10 THEN << CHOOSE c \in DigitChars : ParseInt(c).val = n >>
    ELSE DecimalText(n \div 10) \o DecimalText(n % 10)

\* String(v) of a number
NumberText(v) == IF v.nan THEN << "N", "a", "N" >> ELSE DecimalText(v.val)

\* the text of #healthScoreValue when the page arrives: a Nutri-Score of
\* -MaxBelow..MaxAbove as the template writes it, with spaces around it,
\* with a fraction, or no number
ChartTexts ==
    { DecimalText(n) : n \in (0 - MaxBelow)..MaxAbove }
      \cup { << " ", "7", " " >>, << "7", ".", "9" >>, << "N", "/", "A" >>, << >> }

\* the colour the chart gets for healthScoreValue
scoreColorOf(v) ==
    IF ~v.nan /\ v.val >= 0
    THEN IF v.val <= 0 THEN "#28a745"
         ELSE IF v.val <= 5 THEN "#66bb6a"
         ELSE IF v.val <= 10 THEN "#ffc107"
         ELSE IF v.val <= 15 THEN "#fd7e14"
         ELSE "#dc3545"
    ELSE "#ccc"

InitChart ==
    /\ \E s \in ChartTexts :
          chart = [open |-> TRUE, textContent |-> s, drawn |-> FALSE,
                   healthScoreValue |-> NaN, scoreColor |-> << >>,
                   data |-> << >>, animating |-> FALSE, step |-> 0]
    /\ grade = Closed /\ home = Closed /\ scan = Closed /\ fetch = Closed
    /\ order = Closed /\ search = Closed /\ upload = Closed
    /\ tips = Closed /\ tracked = Closed /\ timer = Closed /\ theme = Closed
    /\ CorePagesIdle

ChartOnly ==
    UNCHANGED << coreVars, grade, home, scan, fetch, order, search, upload,
                 tips, tracked, timer, theme >>

\* const steps = duration / stepTime
AnimationSteps == 800 \div 10

\* DOMContentLoaded with the canvas on the page: the value is read, the
\* colour chosen, the chart made and the first animation frame requested
DrawHealthScoreChart ==
    /\ chart.open /\ ~chart.drawn
    /\ LET v == parseIntText(Trim(chart.textContent))
       IN  chart' = [chart EXCEPT
                        !.drawn = TRUE,
                        !.healthScoreValue = v,
                        !.scoreColor = << scoreColorOf(v) >>,
                        !.data = IF v.nan THEN << NaN, NaN >>
                                 ELSE << v, Num(40 - v.val) >>,
                        !.animating = TRUE]
    /\ ChartOnly

\* animateScore: currentScore is step * targetScore / AnimationSteps; the
\* text is Math.round(currentScore) while currentScore < targetScore, then
\* targetScore
animateScore ==
    /\ chart.open /\ chart.animating
    /\ LET v == chart.healthScoreValue
           k == chart.step + 1
       IN  chart' =
              IF ~v.nan /\ k * v.val < AnimationSteps * v.val
              THEN [chart EXCEPT
                       !.step = k,
                       !.textContent =
                          DecimalText((2 * k * v.val + AnimationSteps)
                                          \div (2 * AnimationSteps))]
              ELSE [chart EXCEPT !.step = k, !.animating = FALSE,
                                 !.textContent = NumberText(v)]
    /\ ChartOnly

NextChart ==
    \/ DrawHealthScoreChart
    \/ animateScore

SpecChart == InitChart /\ [][NextChart]_vars

----------------------------------------------------------------------------
(* Claims about the checksum validator *)

\* the decimal value of a digit character
DigitValue(c) == CHOOSE d \in 0..9 : ToString(d) = c

RECURSIVE SumOver(_, _)
SumOver(f, S) ==
    IF S = {} THEN 0
    ELSE LET x == CHOOSE y \in S : TRUE IN f[x] + SumOver(f, S \ {x})

\* the number of decimal digits of s
DigitCount(s) == Cardinality({ i \in DOMAIN s : s[i] \in DigitChars })

OnlyDigits(s) == \A i \in DOMAIN s : s[i] \in DigitChars

\* the first k characters of s without the non-digit ones
RECURSIVE NormalizeUpTo(_, _)
NormalizeUpTo(s, k) ==
    IF k = 0 THEN << >>
    ELSE IF s[k] \in DigitChars THEN Append(NormalizeUpTo(s, k - 1), s[k])
    ELSE NormalizeUpTo(s, k - 1)

\* s without its non-digit characters
Normalize(s) == NormalizeUpTo(s, Len(s))

\* S of a digit string: the first n digits, weight we at even 0-based
\* indices and wo at odd ones
WeightedSum(s, n, we, wo) ==
    SumOver([i \in 0..n - 1 |->
                DigitValue(s[i + 1]) * (IF i % 2 = 0 THEN we ELSE wo)],
            0..n - 1)

ExpectedCheck(S) == (10 - (S % 10)) % 10

Returned == valid # << >>

\* C1: for a string of exactly 13 decimal digits validateBarcode returns true
\* iff the 13th digit is (10 - (S mod 10)) mod 10, S the sum of the first 12
\* digits weighted x1 at even and x3 at odd 0-based indices.
C1_EAN13Checksum ==
    (Returned /\ Len(barcode) = 13 /\ OnlyDigits(barcode)) =>
        (valid[1] <=>
            DigitValue(barcode[13]) = ExpectedCheck(WeightedSum(barcode, 12, 1, 3)))

\* 4006381333931: S = 89, check digit 1, accepted
C1_Witness ==
    /\ barcode = << "4", "0", "0", "6", "3", "8", "1", "3", "3", "3", "9", "3", "1" >>
    /\ WeightedSum(barcode, 12, 1, 3) = 89
    /\ valid = << TRUE >>

\* C2: for a string of exactly 12 decimal digits validateBarcode returns true
\* iff the 12th digit is (10 - (S mod 10)) mod 10, S the sum of the first 11
\* digits weighted x3 at even and x1 at odd 0-based indices.
C2_UPCChecksum ==
    (Returned /\ Len(barcode) = 12 /\ OnlyDigits(barcode)) =>
        (valid[1] <=>
            DigitValue(barcode[12]) = ExpectedCheck(WeightedSum(barcode, 11, 3, 1)))

\* 036000291452 is accepted
C2_Witness ==
    /\ barcode = << "0", "3", "6", "0", "0", "0", "2", "9", "1", "4", "5", "2" >>
    /\ valid = << TRUE >>

\* C3: validateBarcode returns false whenever fewer than 8 or more than 14
\* decimal digits are left after stripping the non-digit characters,
\* the empty normal form included.
C3_LengthRejected ==
    (Returned /\ (DigitCount(barcode) < 8 \/ DigitCount(barcode) > 14)) =>
        valid[1] = FALSE

\* 15 digits and two non-digit characters: rejected
C3_Witness ==
    /\ DigitCount(barcode) = 15 /\ Len(barcode) = 17
    /\ valid = << FALSE >>

\* C4: an input whose normal form has 8, 9, 10, 11 or 14 digits is accepted
\* whatever the digits are.
C4_OtherLengthsAccepted ==
    (Returned /\ DigitCount(barcode) \in {8, 9, 10, 11, 14}) => valid[1] = TRUE

\* "abc12345678" is accepted
C4_Witness ==
    /\ barcode = << "a", "b", "c", "1", "2", "3", "4", "5", "6", "7", "8" >>
    /\ valid = << TRUE >>

\* C5: validateBarcode(s) = validateBarcode(normalize(s)): the non-digit
\* characters of the input never change the result.
C5_NormalizationInvariant ==
    Returned => valid[1] = validateBarcode(Normalize(barcode))

\* an accepted 13-digit code written with two non-digit characters in it
C5_Witness ==
    /\ Len(barcode) = 15 /\ DigitCount(barcode) = 13
    /\ valid = << TRUE >>

----------------------------------------------------------------------------
(* Claims about the health score estimator *)

Scored == healthScore # << >>

\* the record ProductPage hands to getHealthScore
Facts == IF "nutriments" \in DOMAIN product THEN product.nutriments ELSE << >>

Ind(b) == IF b THEN 1 ELSE 0

\* field f is present with a value strictly above t tenths
Exceeds(n, f, t) == f \in DOMAIN n /\ ~(n[f] <= t)

Clamp(x, lo, hi) == IF x < lo THEN lo ELSE IF x > hi THEN hi ELSE x

\* n with field f removed, and n with field f set to v
Without(n, f) == [g \in DOMAIN n \ {f} |-> n[g]]
With(n, f, v) == [g \in DOMAIN n \cup {f} |-> IF g = f THEN v ELSE n[g]]

\* C6: getHealthScore returns clamp(100 - 15[fat > 20] - 10[saturated_fat > 5]
\* - 20[sugars > 15] - 15[salt > 1.5] - 10[sodium > 600] + 10[fiber > 3]
\* + 5[proteins > 10], 0, 100), every threshold strict, an absent field
\* triggering nothing.
C6_ScoreFormula ==
    Scored =>
        healthScore[1] =
            Clamp(100 - 15 * Ind(Exceeds(Facts, "fat_100g", 200))
                      - 10 * Ind(Exceeds(Facts, "saturated_fat_100g", 50))
                      - 20 * Ind(Exceeds(Facts, "sugars_100g", 150))
                      - 15 * Ind(Exceeds(Facts, "salt_100g", 15))
                      - 10 * Ind(Exceeds(Facts, "sodium_100g", 6000))
                      + 10 * Ind(Exceeds(Facts, "fiber_100g", 30))
                      + 5 * Ind(Exceeds(Facts, "proteins_100g", 100)),
                  0, 100)

\* {fat 25, sugars 20, fiber 5} scores 75
C6_Witness ==
    /\ Facts = [fat_100g |-> 250, sugars_100g |-> 200, fiber_100g |-> 50]
    /\ healthScore = << 75 >>

\* a record with fat exactly 20 and nothing else above a threshold scores 100
C6_WitnessAtThreshold ==
    /\ Scored
    /\ "fat_100g" \in DOMAIN Facts /\ Facts["fat_100g"] = 200
    /\ \A f \in DOMAIN Facts : Facts[f] <= Threshold[f]
    /\ healthScore = << 100 >>

\* C7: getHealthScore returns an integer of 0..100, never less than 30, and
\* 100 (115 clamped) when both bonuses and no penalty are triggered.
C7_ScoreRange ==
    Scored =>
        /\ healthScore[1] \in 0..100
        /\ healthScore[1] >= 30
        /\ ((\A f \in BonusFields : Exceeds(Facts, f, Threshold[f]))
            /\ (\A f \in PenaltyFields : ~Exceeds(Facts, f, Threshold[f])))
               => healthScore[1] = 100

\* all five penalties and no bonus: 30
C7_Witness ==
    /\ Scored
    /\ \A f \in PenaltyFields : Exceeds(Facts, f, Threshold[f])
    /\ \A f \in BonusFields : ~Exceeds(Facts, f, Threshold[f])
    /\ healthScore = << 30 >>

\* both bonuses and no penalty: 100
C7_WitnessBonuses ==
    /\ Scored
    /\ \A f \in BonusFields : Exceeds(Facts, f, Threshold[f])
    /\ \A f \in PenaltyFields : ~Exceeds(Facts, f, Threshold[f])
    /\ healthScore = << 100 >>

\* C8: an absent field contributes nothing: the score of a record is the
\* score of the record with a field not above its threshold removed, and of
\* the record with an absent field added at a value not above its threshold;
\* the record with no field, and the {} taken for a missing
\* product.nutriments, score 100.
C8_AbsentContributesNothing ==
    Scored =>
        /\ \A f \in Fields :
              IF f \in DOMAIN Facts
              THEN Facts[f] <= Threshold[f] =>
                      healthScore[1] = getHealthScore(Without(Facts, f))
              ELSE \A v \in FieldValues(f) :
                      v <= Threshold[f] =>
                          healthScore[1] = getHealthScore(With(Facts, f, v))
        /\ DOMAIN Facts = {} => healthScore[1] = 100

\* product.nutriments missing: 100
C8_Witness ==
    /\ "nutriments" \notin DOMAIN product
    /\ healthScore = << 100 >>

\* a field at its threshold beside a triggered penalty
C8_WitnessRemoved ==
    /\ Scored
    /\ \E f \in DOMAIN Facts : Facts[f] <= Threshold[f]
    /\ \E f \in Fields : f \notin DOMAIN Facts
    /\ healthScore[1] < 100

\* C9: raising the value of a penalty field never raises the score, raising
\* the value of a bonus field never lowers it, the other fields held fixed.
C9_Monotonic ==
    Scored =>
        \A f \in DOMAIN Facts : \A v \in FieldValues(f) :
            v > Facts[f] =>
                /\ f \in PenaltyFields =>
                      getHealthScore(With(Facts, f, v)) <= healthScore[1]
                /\ f \in BonusFields =>
                      getHealthScore(With(Facts, f, v)) >= healthScore[1]

\* a record whose score falls when a penalty field is raised and rises when a
\* bonus field is
C9_Witness ==
    /\ Scored
    /\ \E f \in DOMAIN Facts \cap PenaltyFields : \E v \in FieldValues(f) :
          v > Facts[f] /\ getHealthScore(With(Facts, f, v)) < healthScore[1]
    /\ \E f \in DOMAIN Facts \cap BonusFields : \E v \in FieldValues(f) :
          v > Facts[f] /\ getHealthScore(With(Facts, f, v)) > healthScore[1]

----------------------------------------------------------------------------
(* Claims about the score bands *)

\* the band of a score, its lower bound inclusive
BandOf(s) ==
    CASE s >= 80 -> "Excellent"
      [] s \in 60..79 -> "Good"
      [] s \in 40..59 -> "Fair"
      [] s < 40 -> "Poor"

ClassOfBand ==
    [Excellent |-> "health-score-excellent", Good |-> "health-score-good",
     Fair |-> "health-score-fair", Poor |-> "health-score-poor"]

\* C10: getHealthScoreText and getHealthScoreClass return the same band for
\* every integer score, values outside 0..100 included: >= 80 Excellent,
\* 60..79 Good, 40..59 Fair, below 40 Poor.
C10_Bands ==
    /\ scoreText # << >> => scoreText[1] = BandOf(score)
    /\ scoreClass # << >> => scoreClass[1] = ClassOfBand[BandOf(score)]

\* 60 is Good for both
C10_Witness ==
    /\ score = 60
    /\ scoreText = << "Good" >>
    /\ scoreClass = << "health-score-good" >>

\* a score above 100 and a negative score get a band
C10_WitnessOutside ==
    /\ score < 0
    /\ scoreText = << "Poor" >>
    /\ scoreClass = << "health-score-poor" >>

----------------------------------------------------------------------------
(* Claims about getGradeColor *)

\* the colour of each grade symbol
GradeTable ==
    [A |-> "bg-green-500", B |-> "bg-lime-500", C |-> "bg-yellow-500",
     D |-> "bg-orange-500", E |-> "bg-red-500"]

ColourOfGrade(g) ==
    IF Len(g) = 1 /\ g[1] \in DOMAIN GradeTable THEN GradeTable[g[1]]
    ELSE "bg-gray-500"

\* C11: getGradeColor maps A to green, B to lime, C to yellow, D to orange,
\* E to red and every other input (unknown symbol, lowercase letter, empty
\* or missing grade) to gray, and its two copies agree on every input.
C11_GradeColorTotal ==
    /\ grade.list # << >> => grade.list[1] = ColourOfGrade(grade.arg)
    /\ grade.detail # << >> => grade.detail[1] = ColourOfGrade(grade.arg)
    /\ (grade.list # << >> /\ grade.detail # << >>) => grade.list = grade.detail

\* a lowercase grade letter is gray on both pages
C11_Witness ==
    /\ grade.arg = << "a" >>
    /\ grade.list = << "bg-gray-500" >>
    /\ grade.detail = << "bg-gray-500" >>

\* a missing grade is gray on both pages
C11_WitnessMissing ==
    /\ grade.arg = << >>
    /\ grade.list = << "bg-gray-500" >>
    /\ grade.detail = << "bg-gray-500" >>

----------------------------------------------------------------------------
(* Claims about the manual entry home page *)

\* C12: every barcode used as a lookup key (the navigation to
\* /product/<barcode>) was accepted by the checksum validator before.
C12_LookupValidated ==
    home.location # << >> => validateBarcode(home.location[1])

\* C13: the barcode field holds decimal digits only, and a lookup navigation
\* happens only from a field of 8 to 14 digits.
C13_FieldDigitsOnly ==
    /\ \A i \in DOMAIN home.manualBarcode : home.manualBarcode[i] \in DigitChars
    /\ home.location # << >> =>
          /\ home.location[1] = home.manualBarcode
          /\ Len(home.manualBarcode) >= 8 /\ Len(home.manualBarcode) <= 14

\* a navigation from a full field of 14 digits
C13_Witness ==
    /\ Len(home.manualBarcode) = 14
    /\ home.location = << home.manualBarcode >>

----------------------------------------------------------------------------
(* Claims about the scan page *)

\* C14: the BarcodeScanner never invokes onBarcodeDetected: frames are drawn
\* to the canvas, no barcode is reported to the page, whatever the camera
\* answers and however the component is mounted and unmounted.
C14_NeverDetects ==
    /\ scan.detected = << >>
    /\ scan.location = << >>

\* two frames drawn by an effect of the second mount, nothing reported
C14_Witness ==
    /\ scan.framesDrawn = 2
    /\ scan.mounts = 2
    /\ \E i \in DOMAIN scan.effects : scan.effects[i].frame
    /\ scan.detected = << >>

\* C15: the scan-image route answers success = false with a non-empty error
\* on every path, so an image upload never navigates and ends with an error
\* message shown.
C15_UploadAlwaysFails ==
    /\ scan.result # RouteIdle =>
          /\ ~scan.result.success
          /\ scan.result.error \in
                {"No image provided", "Failed to process image",
                 "Barcode detection not implemented yet. Please use manual entry."}
    /\ scan.uploadPc = "done" =>
          /\ scan.error # ""
          /\ scan.location = << >>
          /\ ~scan.isProcessing

\* an upload answered by the route: its error is shown
C15_Witness ==
    /\ scan.uploadPc = "done"
    /\ scan.result.error = "Barcode detection not implemented yet. Please use manual entry."
    /\ scan.error = scan.result.error

\* the route asked without an image
C15_WitnessNoImage == scan.result.error = "No image provided"

----------------------------------------------------------------------------
(* Claims about getProductData *)

\* the status field of the payload is the number 1
StatusIsOne(o) ==
    o.kind = "object" /\ o.status # << >>
        /\ o.status[1].type = "number" /\ o.status[1].val = 1

\* C16: getProductData issues one request per invocation (no retry, no
\* cache), resolves to data.product when the status field is 1 and to null
\* otherwise (status not 1, network failure, unparsable payload), never
\* throws, and ProductPage computes a health score only for a non-null
\* result.
C16_GetProductData ==
    /\ fetch.requests = fetch.loads
    /\ fetch.resolved # << >> =>
          /\ ~fetch.resolved[1].thrown
          /\ StatusIsOne(fetch.outcome) =>
                fetch.resolved[1].value =
                    IF fetch.outcome.product = << >> THEN JsUndefined
                    ELSE JsObject(fetch.outcome.product[1])
          /\ ~StatusIsOne(fetch.outcome) => fetch.resolved[1].value = JsNull
    /\ healthScore # << >> =>
          /\ fetch.resolved # << >>
          /\ fetch.resolved[1].value.kind = "object"
          /\ StatusIsOne(fetch.outcome)

\* the second request of the page for a product: a record again, scored
C16_Witness ==
    /\ fetch.loads = 2 /\ fetch.requests = 2
    /\ fetch.resolved # << >> /\ fetch.resolved[1].value.kind = "object"
    /\ healthScore = << 75 >>

\* status 1 as a string: null, not found
C16_WitnessStringStatus ==
    /\ fetch.outcome.kind = "object"
    /\ fetch.outcome.status = << JsString("1") >>
    /\ fetch.outcome.product # << >>
    /\ fetch.page = "notFound"

----------------------------------------------------------------------------
(* Claims about the order of the rules *)

\* C17: whatever the order in which the seven statements of getHealthScore
\* are run, the clamped result equals getHealthScore of the record.
C17_OrderIndependent ==
    order.open /\ order.result # << >> =>
        order.result[1] = getHealthScore(order.nutriments)

\* a bonus run first and a deduction after it: fibre, then fat and the
\* rest, ending at 100 - 15 + 10 = 95
C17_Witness ==
    /\ order.open /\ order.result = << 95 >>
    /\ order.first = "fiber_100g"
    /\ DOMAIN order.nutriments = {"fat_100g", "fiber_100g"}

\* the deductions run first, below zero before the bonuses: 100 - 70 + 15
C17_WitnessAll ==
    /\ order.open /\ order.result = << 45 >>
    /\ order.first = "sugars_100g"
    /\ DOMAIN order.nutriments = Fields

----------------------------------------------------------------------------
(* Claims about the colour of the score on the product page *)

\* C18: for a score in 0..100, getScoreColor gives green exactly when
\* getHealthScoreClass gives excellent, yellow exactly when it gives good,
\* and keeps fair (40..59) apart from poor (below 40): two scores of one
\* colour are in one band.
C18_ColorAgreesWithBand ==
    scoreColor # << >> /\ scoreClass # << >> /\ score \in 0..100 =>
        /\ scoreColor[1] = "text-green-600"
              <=> scoreClass[1] = "health-score-excellent"
        /\ scoreColor[1] = "text-yellow-600"
              <=> scoreClass[1] = "health-score-good"
        /\ \A t \in 0..100 :
              getScoreColor(t) = scoreColor[1]
                  => getHealthScoreClass(t) = scoreClass[1]

----------------------------------------------------------------------------
(* Claims about the search box *)

\* C19: every product whose name, brand or barcode contains the search
\* term, case-insensitively, is among the filtered results, and the empty
\* term yields every product.
C19_SearchFindsByBarcode ==
    search.open =>
        /\ \A i \in 1..Len(mockProducts) :
              (\/ includes(toLowerCase(mockProducts[i].name),
                           toLowerCase(search.searchTerm))
               \/ includes(toLowerCase(mockProducts[i].brand),
                           toLowerCase(search.searchTerm))
               \/ includes(toLowerCase(mockProducts[i].barcode),
                           toLowerCase(search.searchTerm)))
                  => \E k \in 1..Len(search.shown) :
                        search.shown[k].id = mockProducts[i].id
        /\ search.searchTerm = << >> => Len(search.shown) = Len(mockProducts)

----------------------------------------------------------------------------
(* Claims about the image chosen for upload *)

\* C20: validateAndPreviewFile accepts a file only if its type is one of
\* the four image types and its size is strictly less than maxSize; every
\* other file produces an error message and leaves the submit button as it
\* was.
C20_AcceptsOnlyBelowMax ==
    upload.open /\ upload.last # << >> =>
        LET call == upload.last[1]
            ok == call.file.type \in validTypes /\ call.file.size < maxSize
        IN  /\ call.accepted => ok
            /\ ~ok =>
                  /\ upload.error \in { << TypeError >>, << SizeError >> }
                  /\ upload.disabled = call.before.disabled
                  /\ upload.textContent = call.before.textContent
                  /\ upload.preview = call.before.preview


\* the file passes the two tests of validateAndPreviewFile
PassesValidation(file) ==
    validateAndPreviewFile(upload, file).last[1].accepted

\* C21: the form is sent only with a file that passed validateAndPreviewFile:
\* once a file has passed and enabled the submit button, a file that fails,
\* dropped on the page after it, does not go out with the form.
C21_SubmitsOnlyValidated ==
    /\ upload.open /\ upload.hasSubmitBtn /\ upload.validated
    /\ upload.submitted # << >>
    => PassesValidation(upload.submitted[1])

----------------------------------------------------------------------------
(* Claims about the camera effect of BarcodeScanner *)

\* C22: once the cleanup of an effect has run, the stream its getUserMedia
\* call obtained has its tracks stopped and no animation frame of that
\* effect is scheduled, also when getUserMedia resolves after the cleanup.
C22_CleanupReleasesCamera ==
    scan.open =>
        \A i \in DOMAIN scan.effects :
            scan.effects[i].cleaned =>
                /\ scan.effects[i].stream # "live"
                /\ ~scan.effects[i].frame

\* the effects of the component instance of effect i that ran before it
EarlierEffects(i) ==
    { k \in 1..(i - 1) : scan.effects[k].inst = scan.effects[i].inst }

\* C23: after camera access is granted the scanner settles: the effect that
\* was granted access stays the only one of its component instance, so
\* getUserMedia is not called again until the component is remounted.
C23_SettlesAfterGrant ==
    scan.open =>
        \A i \in DOMAIN scan.effects :
            scan.effects[i].phase = "granted" /\ EarlierEffects(i) = {} =>
                \A j \in DOMAIN scan.effects : i \notin EarlierEffects(j)


\* C24: an upload starts only while isProcessing is false, sets it and
\* clears the error; while it is in flight isProcessing is true and both
\* buttons are disabled; when it completes isProcessing is false and,
\* no barcode having come back, the error is not empty.
C24_UploadProcessing ==
    /\ [](scan.uploadPc \in {"fetching", "parsing"} => scan.isProcessing)
    /\ [](scan.isProcessing =>
             ChooseImageDisabled(scan) /\ StartCameraDisabled(scan))
    /\ [][scan'.uploads # scan.uploads =>
             /\ ~scan.isProcessing /\ scan.uploadPc \in {"idle", "done"}
             /\ scan'.isProcessing /\ scan'.error = ""]_vars
    /\ [][scan.uploadPc # "done" /\ scan'.uploadPc = "done" =>
             /\ ~scan'.isProcessing
             /\ scan'.location = << >> => scan'.error # ""]_vars

\* a second upload, begun after the first ended with the error of the
\* route, ended with a thrown fetch, the camera running
C24_Witness ==
    /\ scan.uploads = 2 /\ scan.uploadPc = "done" /\ ~scan.isProcessing
    /\ scan.error = "Failed to process image. Please try again."
    /\ scan.isScanning

\* an upload in flight with the camera running
C24_WitnessInFlight ==
    /\ scan.uploadPc = "parsing" /\ scan.isProcessing /\ scan.isScanning
    /\ scan.isActive

----------------------------------------------------------------------------
(* Claims about the dashboard *)

\* C25: once every refreshPersonalizedTips request has completed, the
\* refresh button is enabled and shows the label it had before any refresh
\* started, also when invocations overlapped.
C25_ButtonRestored ==
    /\ tips.open /\ tips.hasButton /\ tips.calls # << >>
    /\ \A i \in DOMAIN tips.calls : tips.calls[i].phase = "done"
    => ~tips.disabled /\ tips.innerHTML = RefreshLabel


\* call i was answered by the server with success = true
RemovalGranted(i) ==
    /\ tracked.calls[i].phase = "done"
    /\ tracked.calls[i].outcome = "answered"
    /\ tracked.calls[i].data.success = << TRUE >>

\* C26: an item's element is gone only if a confirmed call for it was
\* answered with success = true; a cancelled prompt sends no request; a
\* call that ended with a failure answer or an error shows a danger alert
\* and, no call for the item having been granted, the item is on the page.
C26_RemoveOnlyOnSuccess ==
    tracked.open =>
        /\ \A id \in ItemIds \ tracked.items :
              \E i \in DOMAIN tracked.calls :
                  tracked.calls[i].itemId = id /\ RemovalGranted(i)
        /\ tracked.requests = Len(tracked.calls)
        /\ tracked.requests = tracked.prompts - tracked.cancelled
        /\ \A i \in DOMAIN tracked.calls :
              tracked.calls[i].phase = "done" /\ ~RemovalGranted(i) =>
                  /\ tracked.calls[i].alert # << >>
                  /\ tracked.calls[i].alert[1].type = "danger"
                  /\ (\A j \in DOMAIN tracked.calls :
                         tracked.calls[j].itemId = tracked.calls[i].itemId
                             => ~RemovalGranted(j))
                     => tracked.calls[i].itemId \in tracked.items \cup {AbsentId}

\* one prompt cancelled and one confirmed call refused by the server: both
\* items on the page, a danger alert with the server's message
C26_Witness ==
    /\ tracked.open /\ tracked.cancelled = 1 /\ tracked.requests = 1
    /\ tracked.calls[1].phase = "done"
    /\ tracked.calls[1].data.success = << FALSE >>
    /\ tracked.calls[1].alert = << [message |-> "not yours", type |-> "danger"] >>
    /\ tracked.items = ItemIds

\* one item removed by a granted call, the other kept after a network error
C26_WitnessRemoved ==
    /\ tracked.open /\ tracked.items = {"2"} /\ Len(tracked.calls) = 2
    /\ RemovalGranted(1) /\ tracked.calls[2].outcome = "network"
    /\ tracked.calls[2].itemId = "2"

----------------------------------------------------------------------------
(* Claims about debounce *)

\* C27: func is never invoked less than wait after a call of the wrapper,
\* and it gets the arguments of the last call; a burst of calls, each less
\* than wait after the one before, gives one invocation, after the burst.
C27_Debounce ==
    timer.open =>
        /\ \A k \in DOMAIN timer.invoked :
              /\ timer.invoked[k].at - timer.invoked[k].lastCall >= timer.wait
              /\ timer.invoked[k].args = timer.invoked[k].lastArgs
        /\ timer.tight /\ timer.calls > 0 =>
              /\ Len(timer.invoked) = IF timer.timeout = << >> THEN 1 ELSE 0
              /\ \A k \in DOMAIN timer.invoked :
                    timer.invoked[k].lastCall = timer.lastCall[1]

\* a burst of three calls one tick apart with wait = 2, the last with "b":
\* one invocation, with "b"
C27_Witness ==
    /\ timer.open /\ timer.wait = 2 /\ timer.calls = 3 /\ timer.tight
    /\ timer.lastCall = << 2 >>
    /\ Len(timer.invoked) = 1 /\ timer.invoked[1].args = "b"
    /\ timer.invoked[1].at = 4

\* two calls more than wait apart: two invocations
C27_WitnessTwo ==
    /\ timer.open /\ timer.wait = 1 /\ ~timer.tight
    /\ Len(timer.invoked) = 2
    /\ timer.invoked[1].args = "a" /\ timer.invoked[2].args = "b"

----------------------------------------------------------------------------
(* Claims about the theme *)

\* C28: each toggle flips data-theme between light and dark; after a toggle
\* the stored theme equals the attribute; initializeTheme after a reload
\* restores the last toggled theme; with nothing stored the theme is light.
C28_ThemePersists ==
    /\ [](theme.loaded /\ theme.lastToggled # << >> =>
             theme.attribute = theme.lastToggled
                 /\ theme.stored = theme.attribute)
    /\ [](~theme.loaded /\ theme.lastToggled # << >> =>
             theme.stored = theme.lastToggled)
    /\ [](theme.loaded /\ theme.stored = << >> =>
             theme.attribute = << "light" >>)
    /\ [][theme'.toggles # theme.toggles =>
             /\ theme.attribute \in { << "light" >>, << "dark" >> }
             /\ theme'.attribute \in { << "light" >>, << "dark" >> }
             /\ theme'.attribute # theme.attribute]_vars

\* dark stored by a toggle on an earlier page, restored after the reload
C28_Witness ==
    /\ theme.open /\ theme.loaded /\ theme.reloads = 1 /\ theme.toggles = 1
    /\ theme.lastToggled = << "dark" >> /\ theme.attribute = << "dark" >>
    /\ theme.icon = "bi bi-sun-fill"

\* nothing stored: light
C28_WitnessDefault ==
    /\ theme.open /\ theme.loaded /\ theme.stored = << >>
    /\ theme.attribute = << "light" >>

----------------------------------------------------------------------------
(* Claims about the health score chart *)

\* C29: the chart colours a Nutri-Score by grade: 0 and below green, 1..5
\* light green, 6..10 yellow, 11..15 orange, above 15 red; grey only when
\* there is no number.
C29_ColourByGrade ==
    chart.open /\ chart.scoreColor # << >> =>
        LET v == chart.healthScoreValue
        IN  chart.scoreColor[1] =
               IF v.nan THEN "#ccc"
               ELSE IF v.val <= 0 THEN "#28a745"
               ELSE IF v.val <= 5 THEN "#66bb6a"
               ELSE IF v.val <= 10 THEN "#ffc107"
               ELSE IF v.val <= 15 THEN "#fd7e14"
               ELSE "#dc3545"

====
